---- MODULE Spec2Model ----
(***************************************************************************)
(* Model of the VanneControl binary device protocol: the CRC16 checksum,   *)
(* the frame encoders of the device simulator (iot_simulator.py), the      *)
(* frame decoders of the monitors (scripts/mqtt_binary_monitor.py and      *)
(* scripts/mqtt_message_decoder.py) and the VirtualDevice command handler. *)
(*                                                                         *)
(* Bytes are integers 0..255 and byte strings are sequences of bytes.      *)
(* A UUID string is the sequence of its 32 hexadecimal digits (0..15).     *)
(* A telemetry value is a non-negative number of eighths (v stands for     *)
(* v/8), which IEEE-754 single precision represents exactly.               *)
(***************************************************************************)
EXTENDS Integers, Sequences, FiniteSets, TLC

(***************************************************************************)
(* Bounds of the model                                                     *)
(***************************************************************************)
\* number of calls of _publish the devices may count together
MaxPublished == 2
\* number of inbound frames a device may receive
MaxReceived == 2
\* number of bits of the longest frame the transport may damage
MaxFrameBits == 400
\* calls of simulate_environmental_changes on one device
MaxTicks == 3

(***************************************************************************)
(* Bit arithmetic on naturals                                              *)
(***************************************************************************)
RECURSIVE Xor(_, _)
\* Python's a ^ b on non-negative integers
Xor(a, b) ==
    IF a = 0 THEN b
    ELSE IF b = 0 THEN a
    ELSE (((a % 2) + (b % 2)) % 2) + 2 * Xor(a \div 2, b \div 2)

RECURSIVE Pow2(_)
Pow2(n) == IF n = 0 THEN 1 ELSE 2 * Pow2(n - 1)

\* data[a:b] of Python with 0-based a, b already clipped by the caller
Slice(data, a, b) == IF b <= a THEN << >> ELSE SubSeq(data, a + 1, b)

\* Python's clipping of a slice bound to the length of the sequence
Clip(n, len) == IF n < 0 THEN 0 ELSE IF n > len THEN len ELSE n

\* data[:-2]
DropCrc(data) == Slice(data, 0, Clip(Len(data) - 2, Len(data)))

\* data[a:-2]
FromToCrc(data, a) == Slice(data, Clip(a, Len(data)), Clip(Len(data) - 2, Len(data)))

(***************************************************************************)
(* struct.pack / struct.unpack                                             *)
(***************************************************************************)
\* struct.pack('<H', v)
PackH(v) == << v % 256, (v \div 256) % 256 >>

\* struct.unpack('<H', b)[0]
UnpackH(b) == b[1] + 256 * b[2]

\* struct.pack('<I', v), for the values 0 <= v < 2^31 of the model
PackI(v) == << v % 256, (v \div 256) % 256, (v \div 65536) % 256, (v \div 16777216) % 256 >>

\* struct.unpack('<I', b)[0]; a value of 2^31 or more is kept as its bytes
UnpackI(b) ==
    IF b[4] < 128 THEN [value |-> b[1] + 256 * b[2] + 65536 * b[3] + 16777216 * b[4]]
    ELSE [u32 |-> b]

\* struct.pack('<Q', v), for the values 0 <= v < 2^31 of the model
PackQ(v) == PackI(v) \o << 0, 0, 0, 0 >>

\* struct.pack('<f', v / 8) for 0 <= v < 2^24: sign 0, biased exponent, fraction
RECURSIVE HighBit(_)
HighBit(v) == IF v <= 1 THEN 0 ELSE 1 + HighBit(v \div 2)

PackF(v) ==
    IF v = 0 THEN << 0, 0, 0, 0 >>
    ELSE LET k    == HighBit(v)
             e    == (k - 3) + 127
             frac == (v - Pow2(k)) * Pow2(23 - k)
         IN  << frac % 256,
                (frac \div 256) % 256,
                (e % 2) * 128 + (frac \div 65536),
                e \div 2 >>

\* struct.unpack('<f', b)[0]: the number of eighths when the float is a
\* non-negative multiple of 1/8 below 2^21, otherwise the raw bytes
UnpackF(b) ==
    LET e    == (b[4] % 128) * 2 + (b[3] \div 128)
        frac == (b[3] % 128) * 65536 + b[2] * 256 + b[1]
        k    == (e - 127) + 3
    IN  IF b[4] >= 128 THEN [f32 |-> b]
        ELSE IF e = 0 /\ frac = 0 THEN [eighths |-> 0]
        ELSE IF k < 0 \/ k > 23 THEN [f32 |-> b]
        ELSE IF frac % Pow2(23 - k) # 0 THEN [f32 |-> b]
        ELSE [eighths |-> Pow2(k) + frac \div Pow2(23 - k)]

\* f"{value:.2f}" of v / 8: the number of hundredths, ties to even
Format2f(v) ==
    IF "eighths" \notin DOMAIN v THEN v
    ELSE LET n == 25 * v.eighths
             q == n \div 2
         IN  [hundredths |-> IF n % 2 = 0 THEN q ELSE IF q % 2 = 0 THEN q ELSE q + 1]

\* f"{value:.1f}" of eighths / 8: the number of tenths, ties to even
Format1f(eighths) ==
    LET n == 5 * eighths
        q == n \div 4
    IN  [tenths |-> IF n % 4 < 2 THEN q
                    ELSE IF n % 4 > 2 THEN q + 1
                    ELSE IF q % 2 = 0 THEN q ELSE q + 1]

(***************************************************************************)
(* uuid.UUID                                                               *)
(***************************************************************************)
\* uuid.UUID(hex).bytes: two hexadecimal digits per byte, in reading order
UuidBytes(hex) == [i \in 1..16 |-> 16 * hex[2 * i - 1] + hex[2 * i]]

\* str(uuid.UUID(bytes=b)) as its 32 hexadecimal digits
UuidStr(b) == [i \in 1..32 |-> IF i % 2 = 1 THEN b[(i + 1) \div 2] \div 16
                                             ELSE b[i \div 2] % 16]

\* str(device_uuid)[:8] + '...'
UuidShort(b) == SubSeq(UuidStr(b), 1, 8)

(***************************************************************************)
(* str.encode('utf-8') and bytes.decode('utf-8', errors='replace') for     *)
(* code points below 0x800                                                 *)
(***************************************************************************)
ReplacementChar == 65533

RECURSIVE Utf8Encode(_)
Utf8Encode(s) ==
    IF s = << >> THEN << >>
    ELSE (IF Head(s) < 128 THEN << Head(s) >>
          ELSE << 192 + (Head(s) \div 64), 128 + (Head(s) % 64) >>)
         \o Utf8Encode(Tail(s))

RECURSIVE Utf8DecodeWith(_, _)
\* an undecodable byte yields the code points bad
Utf8DecodeWith(b, bad) ==
    IF b = << >> THEN << >>
    ELSE IF Head(b) < 128 THEN << Head(b) >> \o Utf8DecodeWith(Tail(b), bad)
    ELSE IF /\ Head(b) >= 194 /\ Head(b) < 224 /\ Len(b) >= 2
            /\ b[2] >= 128 /\ b[2] < 192
         THEN << (Head(b) - 192) * 64 + (b[2] - 128) >> \o Utf8DecodeWith(Tail(Tail(b)), bad)
    ELSE bad \o Utf8DecodeWith(Tail(b), bad)

\* bytes.decode('utf-8', errors='replace')
Utf8Decode(b) == Utf8DecodeWith(b, << ReplacementChar >>)

\* bytes.decode('utf-8', errors='ignore')
Utf8DecodeIgnore(b) == Utf8DecodeWith(b, << >>)

(***************************************************************************)
(* Checksum engine                                                         *)
(***************************************************************************)
RECURSIVE Crc16Shift(_, _)
\* for _ in range(8): if crc & 0x0001: crc = (crc >> 1) ^ 0x8005 else: crc >>= 1
Crc16Shift(crc, n) ==
    IF n = 0 THEN crc
    ELSE Crc16Shift(IF crc % 2 = 1 THEN Xor(crc \div 2, 32773) ELSE crc \div 2, n - 1)

RECURSIVE Crc16Loop(_, _, _)
\* for byte in data: crc ^= byte; (8 shift steps), from the i-th byte on
Crc16Loop(crc, data, i) ==
    IF crc \notin Nat \/ i > Len(data) THEN crc
    ELSE Crc16Loop(Crc16Shift(Xor(crc, data[i]), 8), data, i + 1)

\* _calculate_crc16 starting from crc = 0x0000
VirtualDevice_calculate_crc16_zero_init(data) == Crc16Loop(0, data, 1) % 65536

\* VirtualDevice._calculate_crc16 (iot_simulator.py)
VirtualDevice_calculate_crc16(data) == Crc16Loop(65535, data, 1) % 65536

\* BinaryMessageDecoder.calculate_crc16 (scripts/mqtt_binary_monitor.py)
Monitor_calculate_crc16(data) == Crc16Loop(65535, data, 1) % 65536

\* BinaryProtocolClient._calculate_crc16 (binary_device_client.py)
Client_calculate_crc16(data) == Crc16Loop(65535, data, 1) % 65536

\* BinaryProtocolClient._calculate_crc16 (scripts/binary_device_client.py)
ClientFixed_calculate_crc16(data) == Crc16Loop(65535, data, 1) % 65536

\* calculate_crc16 returning early on no data with the accumulator cleared
TestCrc_calculate_crc16_empty_zero(data) ==
    IF data = << >> THEN 0 ELSE Crc16Loop(65535, data, 1) % 65536

\* calculate_crc16 (scripts/test_crc.py)
TestCrc_calculate_crc16(data) == Crc16Loop(65535, data, 1) % 65536

\* the CRC of the Kotlin backend, as quoted in scripts/binary_device_client.py
Backend_crc16(data) == Crc16Loop(65535, data, 1) % 65536

RECURSIVE CcittShift(_, _)
\* for _ in range(8): if crc & 0x8000: crc = (crc << 1) ^ 0x1021 else: crc = crc << 1; crc &= 0xFFFF
CcittShift(crc, n) ==
    IF n = 0 THEN crc
    ELSE CcittShift((IF crc % 65536 >= 32768 THEN Xor(crc * 2, 4129) ELSE crc * 2) % 65536, n - 1)

RECURSIVE CcittLoop(_, _, _)
\* for byte in data: crc ^= byte << 8; (8 shift steps), from the i-th byte on
CcittLoop(crc, data, i) ==
    IF crc \notin Nat \/ i > Len(data) THEN crc
    ELSE CcittLoop(CcittShift(Xor(crc, data[i] * 256), 8), data, i + 1)

\* BinaryMessageDecoder.calculate_crc16 (scripts/mqtt_message_decoder.py)
Decoder_calculate_crc16(data) == CcittLoop(65535, data, 1)

(***************************************************************************)
(* Frame encoders of VirtualDevice (iot_simulator.py)                      *)
(***************************************************************************)
\* MessageType
PISTON_STATE == 1
STATUS_UPDATE == 2
TELEMETRY == 3
ERROR == 4

\* DeviceStatus
OFFLINE == 0
ONLINE == 1
STATUS_ERROR == 2

\* _create_message packing the checksum big-endian ('>H')
VirtualDevice_create_message_big_endian(device_id, message_type, payload) ==
    LET header == << message_type >>
        data   == header \o UuidBytes(device_id) \o payload
        checksum == VirtualDevice_calculate_crc16(data)
    IN  data \o << checksum \div 256, checksum % 256 >>

\* VirtualDevice._create_message
VirtualDevice_create_message(device_id, message_type, payload) ==
    LET header == << message_type >>
        data   == header \o UuidBytes(device_id) \o payload
        checksum == VirtualDevice_calculate_crc16(data)
    IN  data \o PackH(checksum)

\* send_piston_state packing the state byte before the piston number
PistonStatePayload_swapped(piston_number, is_active, timestamp) ==
    << IF is_active THEN 1 ELSE 0, piston_number >> \o PackQ(timestamp)

\* payload of VirtualDevice.send_piston_state
PistonStatePayload(piston_number, is_active, timestamp) ==
    << piston_number, IF is_active THEN 1 ELSE 0 >> \o PackQ(timestamp)

\* A battery level is a number of eighths, held as a Python int or float.
\* struct.pack('<BBB', ...) of send_status_update raises struct.error when
\* handed a float
StatusUpdateRaises(battery_level) == battery_level.float

\* payload of VirtualDevice.send_status_update
StatusUpdatePayload(status, battery_level, signal_strength) ==
    LET battery == IF battery_level.eighths <= 800 THEN battery_level.eighths \div 8 ELSE 255
        signal  == IF signal_strength <= 100 THEN signal_strength ELSE 255
    IN  << status, battery, signal >>

\* sensor_codes.get(sensor_type, 0)
SensorCode(sensor_type) ==
    CASE sensor_type = "temperature" -> 0
      [] sensor_type = "pressure"    -> 1
      [] sensor_type = "humidity"    -> 2
      [] sensor_type = "voltage"     -> 3
      [] OTHER                       -> 0

\* payload of VirtualDevice.send_telemetry
TelemetryPayload(sensor_type, value, timestamp) ==
    << SensorCode(sensor_type) >> \o PackF(value) \o PackQ(timestamp)

\* payload of VirtualDevice.send_error
ErrorPayload(error_code, error_message) ==
    PackI(error_code) \o Utf8Encode(error_message)

\* the frame a send_* method builds for the message m
EncodeMessage(device_id, m) ==
    CASE m.kind = PISTON_STATE ->
           VirtualDevice_create_message(device_id, PISTON_STATE,
               PistonStatePayload(m.piston_number, m.is_active, m.timestamp))
      [] m.kind = STATUS_UPDATE ->
           VirtualDevice_create_message(device_id, STATUS_UPDATE,
               StatusUpdatePayload(m.status, m.battery_level, m.signal_strength))
      [] m.kind = TELEMETRY ->
           VirtualDevice_create_message(device_id, TELEMETRY,
               TelemetryPayload(m.sensor_type, m.value, m.timestamp))
      [] m.kind = ERROR ->
           VirtualDevice_create_message(device_id, ERROR,
               ErrorPayload(m.error_code, m.error_message))

(***************************************************************************)
(* datetime.fromtimestamp                                                  *)
(***************************************************************************)
\* milliseconds of one day
DayMs == 86400000

\* 253402300800000 = 0xE677D21FDC00 ms and 253402300800 = 0x3AFFF44180 s:
\* the first instant of year 10000 (UTC), as little-endian u64
Year10000Ms == << 0, 220, 31, 210, 119, 230, 0, 0 >>
Year10000S  == << 128, 65, 244, 255, 58, 0, 0, 0 >>

RECURSIVE GeLE(_, _, _)
\* a >= b for two little-endian byte strings of equal length, from byte i down
GeLE(a, b, i) ==
    IF i = 0 THEN TRUE
    ELSE IF a[i] > b[i] THEN TRUE
    ELSE IF a[i] < b[i] THEN FALSE
    ELSE GeLE(a, b, i - 1)

RECURSIVE ModBits(_, _, _, _)
\* the little-endian number b modulo m, bit i (1 = lowest) down to bit 1
ModBits(b, m, i, acc) ==
    IF acc \notin Nat \/ i = 0 THEN acc
    ELSE LET bit == (b[((i - 1) \div 8) + 1] \div Pow2((i - 1) % 8)) % 2
         IN  ModBits(b, m, i - 1, (2 * acc + bit) % m)

\* datetime.fromtimestamp(timestamp_ms / 1000) raises (year out of range)
FromTimestampMsRaises(q) == GeLE(q, Year10000Ms, 8)

\* datetime.fromtimestamp(timestamp) raises (year out of range)
FromTimestampSRaises(q) == GeLE(q, Year10000S, 8)

\* timestamp.strftime('%H:%M:%S.%f')[:-3]: the millisecond of the day (UTC)
TimeOfDay(q) == ModBits(q, DayMs, 64, 0)

(***************************************************************************)
(* BinaryMessageDecoder of scripts/mqtt_binary_monitor.py                  *)
(* A decode yields the returned dict (out), the payload parser that ran    *)
(* (parser) and the increments of crc_errors and decode_errors.  The       *)
(* 'type' key of the unknown-type dict, which holds the raw kind byte, is  *)
(* the field raw_type.                                                     *)
(***************************************************************************)
\* verify_crc comparing the low byte of the checksum only
Monitor_verify_crc_low_byte(data) ==
    IF Len(data) < 19 THEN FALSE
    ELSE LET received_crc   == UnpackH(SubSeq(data, Len(data) - 1, Len(data)))
             calculated_crc == Monitor_calculate_crc16(DropCrc(data))
         IN  received_crc % 256 = calculated_crc % 256

\* BinaryMessageDecoder.verify_crc
Monitor_verify_crc(data) ==
    IF Len(data) < 19 THEN FALSE
    ELSE LET received_crc   == UnpackH(SubSeq(data, Len(data) - 1, Len(data)))
             calculated_crc == Monitor_calculate_crc16(DropCrc(data))
         IN  received_crc = calculated_crc

\* the except branch of BinaryMessageDecoder.decode
DecodeException(parser) ==
    [out |-> [error |-> "Decode exception"], parser |-> parser,
     crc_errors |-> 0, decode_errors |-> 1]

\* BinaryMessageDecoder._decode_piston_state
Monitor_decode_piston_state(device_uuid, payload, crc) ==
    IF Len(payload) < 10
    THEN [out |-> [error |-> "Invalid piston state payload size", size |-> Len(payload)],
          parser |-> "piston_state", crc_errors |-> 0, decode_errors |-> 0]
    ELSE LET piston_num   == payload[1]
             state_byte   == payload[2]
             timestamp_ms == SubSeq(payload, 3, 10)
         IN  IF FromTimestampMsRaises(timestamp_ms) THEN DecodeException("piston_state")
             ELSE [out |-> [type |-> "PISTON_STATE",
                            device_id |-> UuidShort(device_uuid),
                            piston |-> piston_num,
                            state |-> IF state_byte = 1 THEN "ACTIVE" ELSE "INACTIVE",
                            timestamp |-> TimeOfDay(timestamp_ms),
                            crc |-> crc],
                   parser |-> "piston_state", crc_errors |-> 0, decode_errors |-> 0]

\* STATUS_CODES.get(status_code, f"unknown({status_code})")
StatusName(status_code) ==
    CASE status_code = 0 -> [name |-> "offline"]
      [] status_code = 1 -> [name |-> "online"]
      [] status_code = 2 -> [name |-> "error"]
      [] OTHER           -> [unknown |-> status_code]

\* f"{battery}%" if battery != 255 else "N/A"
Percent(b) == IF b # 255 THEN [percent |-> b] ELSE [text |-> "N/A"]

\* BinaryMessageDecoder._decode_status_update
Monitor_decode_status_update(device_uuid, payload, crc) ==
    IF Len(payload) < 3
    THEN [out |-> [error |-> "Invalid status update payload size", size |-> Len(payload)],
          parser |-> "status_update", crc_errors |-> 0, decode_errors |-> 0]
    ELSE [out |-> [type |-> "STATUS_UPDATE",
                   device_id |-> UuidShort(device_uuid),
                   status |-> StatusName(payload[1]),
                   battery |-> Percent(payload[2]),
                   signal |-> Percent(payload[3]),
                   crc |-> crc],
          parser |-> "status_update", crc_errors |-> 0, decode_errors |-> 0]

\* SENSOR_TYPES.get(sensor_code, f"unknown({sensor_code})")
SensorName(sensor_code) ==
    CASE sensor_code = 0 -> [name |-> "temperature"]
      [] sensor_code = 1 -> [name |-> "pressure"]
      [] sensor_code = 2 -> [name |-> "humidity"]
      [] sensor_code = 3 -> [name |-> "voltage"]
      [] OTHER           -> [unknown |-> sensor_code]

\* BinaryMessageDecoder._decode_telemetry
Monitor_decode_telemetry(device_uuid, payload, crc) ==
    IF Len(payload) < 13
    THEN [out |-> [error |-> "Invalid telemetry payload size", size |-> Len(payload)],
          parser |-> "telemetry", crc_errors |-> 0, decode_errors |-> 0]
    ELSE LET sensor_code  == payload[1]
             value        == UnpackF(SubSeq(payload, 2, 5))
             timestamp_ms == SubSeq(payload, 6, 13)
         IN  IF FromTimestampMsRaises(timestamp_ms) THEN DecodeException("telemetry")
             ELSE [out |-> [type |-> "TELEMETRY",
                            device_id |-> UuidShort(device_uuid),
                            sensor |-> SensorName(sensor_code),
                            value |-> Format2f(value),
                            timestamp |-> TimeOfDay(timestamp_ms),
                            crc |-> crc],
                   parser |-> "telemetry", crc_errors |-> 0, decode_errors |-> 0]

\* _decode_error requiring one byte of message text: len(payload) < 5
Monitor_decode_error_needs_message(device_uuid, payload, crc) ==
    IF Len(payload) < 5
    THEN [out |-> [error |-> "Invalid error payload size", size |-> Len(payload)],
          parser |-> "error", crc_errors |-> 0, decode_errors |-> 0]
    ELSE [out |-> [type |-> "ERROR",
                   device_id |-> UuidShort(device_uuid),
                   code |-> UnpackI(SubSeq(payload, 1, 4)),
                   message |-> Utf8Decode(Slice(payload, 4, Len(payload))),
                   crc |-> crc],
          parser |-> "error", crc_errors |-> 0, decode_errors |-> 0]

\* BinaryMessageDecoder._decode_error
Monitor_decode_error(device_uuid, payload, crc) ==
    IF Len(payload) < 4
    THEN [out |-> [error |-> "Invalid error payload size", size |-> Len(payload)],
          parser |-> "error", crc_errors |-> 0, decode_errors |-> 0]
    ELSE [out |-> [type |-> "ERROR",
                   device_id |-> UuidShort(device_uuid),
                   code |-> UnpackI(SubSeq(payload, 1, 4)),
                   message |-> Utf8Decode(Slice(payload, 4, Len(payload))),
                   crc |-> crc],
          parser |-> "error", crc_errors |-> 0, decode_errors |-> 0]

\* BinaryMessageDecoder.decode, past its length check
Monitor_decode_frame(data) ==
    IF ~Monitor_verify_crc(data)
    THEN [out |-> [error |-> "CRC mismatch",
                   received_crc |-> UnpackH(SubSeq(data, Len(data) - 1, Len(data))),
                   calculated_crc |-> Monitor_calculate_crc16(DropCrc(data)),
                   hex |-> data],
          parser |-> "none", crc_errors |-> 1, decode_errors |-> 0]
    ELSE LET msg_type    == data[1]
             device_uuid == SubSeq(data, 2, 17)
             payload     == FromToCrc(data, 17)
             crc         == UnpackH(SubSeq(data, Len(data) - 1, Len(data)))
         IN  CASE msg_type = 1 -> Monitor_decode_piston_state(device_uuid, payload, crc)
               [] msg_type = 2 -> Monitor_decode_status_update(device_uuid, payload, crc)
               [] msg_type = 3 -> Monitor_decode_telemetry(device_uuid, payload, crc)
               [] msg_type = 4 -> Monitor_decode_error(device_uuid, payload, crc)
               [] OTHER -> [out |-> [error |-> "Unknown message type",
                                     raw_type |-> msg_type,
                                     device_id |-> UuidStr(device_uuid),
                                     hex |-> data],
                            parser |-> "none", crc_errors |-> 0, decode_errors |-> 0]

\* decode with its length check off by one: len(data) < 18
Monitor_decode_off_by_one(data) ==
    IF Len(data) < 18
    THEN [out |-> [error |-> "Message too short", size |-> Len(data), hex |-> data],
          parser |-> "none", crc_errors |-> 0, decode_errors |-> 1]
    ELSE Monitor_decode_frame(data)

\* BinaryMessageDecoder.decode
Monitor_decode(data) ==
    IF Len(data) < 19
    THEN [out |-> [error |-> "Message too short", size |-> Len(data), hex |-> data],
          parser |-> "none", crc_errors |-> 0, decode_errors |-> 1]
    ELSE Monitor_decode_frame(data)

(***************************************************************************)
(* BinaryMessageDecoder of scripts/mqtt_message_decoder.py                 *)
(* A payload parser yields the data dict, or raises.                       *)
(***************************************************************************)
\* BinaryMessageDecoder.decode_piston_state
Decoder_decode_piston_state(payload) ==
    IF Len(payload) >= 10
    THEN LET timestamp == SubSeq(payload, 3, 10)
         IN  IF FromTimestampSRaises(timestamp) THEN [raises |-> "year out of range"]
             ELSE [piston_number |-> payload[1],
                   state |-> IF payload[2] = 1 THEN "ACTIVE" ELSE "INACTIVE",
                   state_raw |-> payload[2],
                   timestamp |-> timestamp]
    ELSE [raw_hex |-> payload]

\* an Optional[int]
Some(v) == [value |-> v]
None == [none |-> TRUE]

\* BinaryMessageDecoder.decode_status_update
Decoder_decode_status_update(payload) ==
    IF Len(payload) >= 3
    THEN LET status_byte == payload[1]
             status_len  == payload[2]
             offset      == 2 + status_len
         IN  IF Len(payload) >= 2 + status_len
             THEN [status |-> Utf8DecodeIgnore(Slice(payload, 2, 2 + status_len)),
                   battery_level |-> IF Len(payload) >= offset + 2
                                     THEN Some(payload[offset + 1]) ELSE None,
                   signal_strength |-> IF Len(payload) >= offset + 2
                                       THEN Some(payload[offset + 2]) ELSE None]
             ELSE [status_byte |-> status_byte, raw_hex |-> payload]
    ELSE [raw_hex |-> payload]

\* BinaryMessageDecoder.decode_telemetry
Decoder_decode_telemetry(payload) ==
    IF Len(payload) >= 13 /\ Len(payload) >= 1 + payload[1] + 12
    THEN LET sensor_len == payload[1]
             offset     == 1 + sensor_len
             timestamp  == SubSeq(payload, offset + 5, offset + 12)
         IN  IF FromTimestampSRaises(timestamp) THEN [raises |-> "year out of range"]
             ELSE [sensor_type |-> Utf8DecodeIgnore(Slice(payload, 1, 1 + sensor_len)),
                   value |-> Format2f(UnpackF(SubSeq(payload, offset + 1, offset + 4))),
                   timestamp |-> timestamp]
    ELSE [raw_hex |-> payload]

RECURSIVE RStripZero(_)
\* bytes.rstrip(b'\x00')
RStripZero(b) ==
    IF b = << >> THEN b
    ELSE IF b[Len(b)] = 0 THEN RStripZero(SubSeq(b, 1, Len(b) - 1))
    ELSE b

\* BinaryMessageDecoder.get_error_severity
Decoder_get_error_severity(code) ==
    IF code < 400 THEN "INFO" ELSE IF code < 500 THEN "WARNING" ELSE "ERROR"

\* BinaryMessageDecoder.decode_error
Decoder_decode_error(payload) ==
    IF Len(payload) >= 34
    THEN LET error_code == UnpackH(SubSeq(payload, 1, 2))
         IN  [error_code |-> error_code,
              error_message |-> Utf8DecodeIgnore(RStripZero(SubSeq(payload, 3, 34))),
              severity |-> Decoder_get_error_severity(error_code)]
    ELSE [raw_hex |-> payload]

\* BinaryMessageDecoder.decode_binary_message
Decoder_decode_binary_message(payload) ==
    IF Len(payload) < 19
    THEN [out |-> [returned |-> "None"], parser |-> "none"]
    ELSE LET message_type   == payload[1]
             device_uuid    == UuidStr(SubSeq(payload, 2, 17))
             received_crc   == UnpackH(SubSeq(payload, Len(payload) - 1, Len(payload)))
             calculated_crc == Decoder_calculate_crc16(DropCrc(payload))
             payload_data   == FromToCrc(payload, 17)
             parser == CASE message_type = 1 -> "piston_state"
                         [] message_type = 2 -> "status_update"
                         [] message_type = 3 -> "telemetry"
                         [] message_type = 4 -> "error"
                         [] OTHER -> "none"
             data == CASE message_type = 1 -> Decoder_decode_piston_state(payload_data)
                       [] message_type = 2 -> Decoder_decode_status_update(payload_data)
                       [] message_type = 3 -> Decoder_decode_telemetry(payload_data)
                       [] message_type = 4 -> Decoder_decode_error(payload_data)
                       [] OTHER -> [raw_hex |-> payload_data]
         IN  IF "raises" \in DOMAIN data
             THEN [out |-> [error |-> data.raises, raw_hex |-> payload,
                            raw_length |-> Len(payload)],
                   parser |-> parser]
             ELSE [out |-> [device_id |-> device_uuid,
                            message_type |-> message_type,
                            crc_valid |-> (received_crc = calculated_crc),
                            received_crc |-> received_crc,
                            calculated_crc |-> calculated_crc,
                            raw_length |-> Len(payload),
                            data |-> data],
                   parser |-> parser]


(***************************************************************************)
(* State                                                                   *)
(***************************************************************************)
VARIABLES
    devices,     \* DeviceSimulator.devices: the VirtualDevice objects, in order
    running,     \* DeviceSimulator.running
    driver,      \* position of main(): the function it is in, device k, step j
    link,        \* per device, the state of its MQTT client connection
    published,   \* the calls of client.publish made by the last step, in order
    last,        \* the operation performed last
    bench,       \* the codec on its own: inputs, frame and results
    callback,    \* per device, the position of its client thread inside _on_message
    transport    \* per device, the number of frames client.publish has accepted

vars == << devices, running, driver, link, published, last, bench, callback, transport >>

sysvars == << devices, running, driver, link, published, last, callback, transport >>

(***************************************************************************)
(* Inputs                                                                  *)
(***************************************************************************)
\* the device ids of main(): 550e8400-e29b-41d4-a716-446655440000 and
\* 660e8400-e29b-41d4-a716-446655440001
DeviceIds ==
    << << 5,5,0,14,8,4,0,0,14,2,9,11,4,1,13,4,10,7,1,6,4,4,6,6,5,5,4,4,0,0,0,0 >>,
       << 6,6,0,14,8,4,0,0,14,2,9,11,4,1,13,4,10,7,1,6,4,4,6,6,5,5,4,4,0,0,0,1 >> >>

\* an id that differs from the first one in its last digit only
NearId == << 5,5,0,14,8,4,0,0,14,2,9,11,4,1,13,4,10,7,1,6,4,4,6,6,5,5,4,4,0,0,0,1 >>

\* num_pistons of the add_device calls of main(), in order (main() adds
\* devices of 8, 8 and 6 pistons; the model adds two smaller ones)
PistonCounts == << 1, 2 >>

\* the devices the backend sends commands to (a device does not compare the
\* device id of a frame with its own)
Commanded == {2}

\* random.randint(70, 100)
SignalInit == {100}

\* int(time.time() * 1000), the clock of the devices
Clock == {86400123}

\* the error_conditions table of _scenario_error_simulation
ErrorConditions ==
    { << 503, << 83, 101, 110, 115, 111, 114, 32, 109, 97, 108, 102, 117, 110, 99, 116,
             105, 111, 110, 32, 100, 101, 116, 101, 99, 116, 101, 100 >> >>,
      << 404, << 80, 105, 115, 116, 111, 110, 32, 97, 99, 116, 117, 97, 116, 111, 114,
             32, 110, 111, 116, 32, 114, 101, 115, 112, 111, 110, 100, 105, 110, 103 >> >>,
      << 500, << 83, 121, 115, 116, 101, 109, 32, 111, 118, 101, 114, 104, 101, 97, 116,
             105, 110, 103, 32, 119, 97, 114, 110, 105, 110, 103 >> >>,
      << 101, << 76, 111, 119, 32, 98, 97, 116, 116, 101, 114, 121, 32, 119, 97, 114,
             110, 105, 110, 103 >> >> }

\* random.uniform(-0.5, 0.5), random.uniform(-2.0, 2.0) and
\* random.uniform(0.1, 0.3) in eighths, random.randint(-5, 5)
TemperatureDeltas == {-3, 4}
HumidityDeltas == {16}
BatteryDrains == {1, 2}
SignalDeltas == {-5}

(***************************************************************************)
(* Inbound frames: commands of the backend and garbage                     *)
(***************************************************************************)
\* a frame as the backend builds it
BackendFrame(device_id, kind, payload) ==
    LET data == << kind >> \o UuidBytes(device_id) \o payload
    IN  data \o PackH(Backend_crc16(data))

\* data with the lowest bit of its k-th byte flipped
Corrupt(data, k) == [data EXCEPT ![k] = IF @ % 2 = 0 THEN @ + 1 ELSE @ - 1]

GoodCommand == BackendFrame(DeviceIds[1], PISTON_STATE, << 1, 1 >> \o PackQ(0))

CommandFrames ==
    { BackendFrame(DeviceIds[1], PISTON_STATE, << pn, st >> \o PackQ(0)) :
          pn \in {0, 1, 3}, st \in {0, 1} }
    \cup { BackendFrame(NearId, PISTON_STATE, << 1, 1 >> \o PackQ(0)),
           BackendFrame(DeviceIds[1], PISTON_STATE, << >>),
           BackendFrame(DeviceIds[1], STATUS_UPDATE, << 1, 100, 85 >>),
           BackendFrame(DeviceIds[1], 5, << 1, 1 >> \o PackQ(0)) }

CorruptFrames ==
    { Corrupt(GoodCommand, Len(GoodCommand)), Corrupt(GoodCommand, 18) }

ShortFrames == { << >>, SubSeq(GoodCommand, 1, 18) }

InboundFrames == CommandFrames \cup CorruptFrames \cup ShortFrames

\* the inbound frames whose two trailing bytes are not the CRC16 of the
\* bytes before them
BadChecksumFrames ==
    { data \in InboundFrames :
          /\ Len(data) >= 2
          /\ UnpackH(SubSeq(data, Len(data) - 1, Len(data))) # Backend_crc16(DropCrc(data)) }

(***************************************************************************)
(* VirtualDevice (iot_simulator.py)                                        *)
(* A call yields the device after it (dev), the messages it handed to      *)
(* _publish (sends) and whether it raised (raised).                        *)
(***************************************************************************)
\* __init__ with Piston.state defaulting to True
VirtualDevice_init_pistons_active(device_id, num_pistons, signal) ==
    [device_id |-> device_id,
     pistons |-> [n \in 1..num_pistons |-> TRUE],
     status |-> OFFLINE,
     battery_level |-> [float |-> FALSE, eighths |-> 800],
     signal_strength |-> signal,
     temperature |-> 200,
     pressure |-> 8106,
     humidity |-> 400,
     running |-> FALSE,
     connected |-> FALSE,
     messages_sent |-> 0,
     messages_received |-> 0,
     errors |-> 0]

\* VirtualDevice.__init__
VirtualDevice_init(device_id, num_pistons, signal) ==
    [device_id |-> device_id,
     pistons |-> [n \in 1..num_pistons |-> FALSE],
     status |-> OFFLINE,
     battery_level |-> [float |-> FALSE, eighths |-> 800],
     signal_strength |-> signal,
     temperature |-> 200,
     pressure |-> 8106,
     humidity |-> 400,
     running |-> FALSE,
     connected |-> FALSE,
     messages_sent |-> 0,
     messages_received |-> 0,
     errors |-> 0]

\* _parse_command without the comparison of the checksums
VirtualDevice_parse_command_unchecked(data) ==
    IF Len(data) < 19 THEN [type |-> "None"]
    ELSE LET message_type == data[1]
             payload      == FromToCrc(data, 17)
         IN  IF message_type = PISTON_STATE
             THEN IF Len(payload) < 2 THEN [type |-> "raise"]
                  ELSE [type |-> "piston_command",
                        piston_number |-> payload[1],
                        activate |-> (payload[2] = 1)]
             ELSE [type |-> "None"]

\* VirtualDevice._parse_command: None, a raised struct.error, or the command
VirtualDevice_parse_command(data) ==
    IF Len(data) < 19 THEN [type |-> "None"]
    ELSE LET message_type == data[1]
             payload      == FromToCrc(data, 17)
             received_checksum   == UnpackH(SubSeq(data, Len(data) - 1, Len(data)))
             calculated_checksum == VirtualDevice_calculate_crc16(DropCrc(data))
         IN  IF received_checksum # calculated_checksum THEN [type |-> "None"]
             ELSE IF message_type = PISTON_STATE
             THEN IF Len(payload) < 2 THEN [type |-> "raise"]
                  ELSE [type |-> "piston_command",
                        piston_number |-> payload[1],
                        activate |-> (payload[2] = 1)]
             ELSE [type |-> "None"]

\* BinaryProtocolClient._parse_command (scripts/binary_device_client.py)
ClientFixed_parse_command(data) ==
    IF Len(data) < 19 THEN [type |-> "None"]
    ELSE LET message_type == data[1]
             payload      == FromToCrc(data, 17)
             received_checksum   == UnpackH(SubSeq(data, Len(data) - 1, Len(data)))
             calculated_checksum == ClientFixed_calculate_crc16(DropCrc(data))
         IN  IF received_checksum # calculated_checksum THEN [type |-> "None"]
             ELSE IF message_type = PISTON_STATE /\ Len(payload) >= 2
             THEN [type |-> "piston_command",
                   piston |-> payload[1],
                   state |-> IF payload[2] = 1 THEN "active" ELSE "inactive"]
             ELSE [type |-> "unknown", data |-> payload]

\* _parse_command of every inbound frame of the model, computed once
InboundParsed == [data \in InboundFrames |-> VirtualDevice_parse_command(data)]

\* self._parse_command(msg.payload)
ParseCommand(data) ==
    IF data \in InboundFrames THEN InboundParsed[data] ELSE VirtualDevice_parse_command(data)

\* _publish adding to messages_sent also when client.publish raised
VirtualDevice_publish_counts_raised(dev, ok) ==
    IF ok THEN [dev EXCEPT !.messages_sent = @ + 1]
    ELSE [dev EXCEPT !.messages_sent = @ + 1, !.errors = @ + 1]

\* VirtualDevice._publish: the counters after client.publish returned (ok) or raised
VirtualDevice_publish(dev, ok) ==
    IF ok THEN [dev EXCEPT !.messages_sent = @ + 1]
    ELSE [dev EXCEPT !.errors = @ + 1]

\* the messages the devices of the model build most often ...
Frameable ==
    LET Payloads ==
            { << PISTON_STATE, PistonStatePayload(p, st, t) >> :
                  p \in 1..2, st \in BOOLEAN, t \in Clock }
            \cup { << STATUS_UPDATE,
                     StatusUpdatePayload(st, [float |-> FALSE, eighths |-> 800], sig) >> :
                       st \in {OFFLINE, ONLINE}, sig \in {90, 95, 100} }
            \cup { << TELEMETRY, TelemetryPayload("temperature", v, t) >> :
                       v \in 191..212, t \in Clock }
            \cup { << TELEMETRY, TelemetryPayload("humidity", v, t) >> :
                       v \in {400, 416, 432, 448}, t \in Clock }
            \cup { << ERROR, ErrorPayload(c[1], c[2]) >> : c \in ErrorConditions }
    IN  { << DeviceIds[i], m[1], m[2] >> : i \in 1..Len(DeviceIds), m \in Payloads }

\* ... and their frames, computed once
Framed == [k \in Frameable |-> VirtualDevice_create_message(k[1], k[2], k[3])]

\* the frames of that table that pass verify_crc of the monitor
VerifiedFrames == { Framed[k] : k \in { m \in Frameable : Monitor_verify_crc(Framed[m]) } }

\* self._create_message(message_type, payload)
CreateMessage(device_id, message_type, payload) ==
    IF << device_id, message_type, payload >> \in Frameable
    THEN Framed[<< device_id, message_type, payload >>]
    ELSE VirtualDevice_create_message(device_id, message_type, payload)

\* VirtualDevice.send_piston_state
VirtualDevice_send_piston_state(dev, piston_number, is_active, timestamp) ==
    [dev |-> dev,
     sends |-> << CreateMessage(dev.device_id, PISTON_STATE,
                                PistonStatePayload(piston_number, is_active, timestamp)) >>,
     raised |-> FALSE]

\* VirtualDevice.send_status_update
VirtualDevice_send_status_update(dev) ==
    IF StatusUpdateRaises(dev.battery_level)
    THEN [dev |-> dev, sends |-> << >>, raised |-> TRUE]
    ELSE [dev |-> dev,
          sends |-> << CreateMessage(dev.device_id, STATUS_UPDATE,
                           StatusUpdatePayload(dev.status, dev.battery_level,
                                               dev.signal_strength)) >>,
          raised |-> FALSE]

\* VirtualDevice.send_telemetry
VirtualDevice_send_telemetry(dev, sensor_type, value, timestamp) ==
    [dev |-> dev,
     sends |-> << CreateMessage(dev.device_id, TELEMETRY,
                      TelemetryPayload(sensor_type, value, timestamp)) >>,
     raised |-> FALSE]

\* VirtualDevice.send_error
VirtualDevice_send_error(dev, error_code, error_message) ==
    [dev |-> dev,
     sends |-> << CreateMessage(dev.device_id, ERROR,
                      ErrorPayload(error_code, error_message)) >>,
     raised |-> FALSE]

\* nothing sent, nothing raised
Quiet(dev) == [dev |-> dev, sends |-> << >>, raised |-> FALSE]

\* _execute_command without the lower bound of the range check; Python's
\* self.pistons[-1] is the last piston
VirtualDevice_execute_command_no_lower_bound(dev, command, timestamp) ==
    LET piston_num == command.piston_number
        activate   == command.activate
        index      == IF piston_num = 0 THEN Len(dev.pistons) ELSE piston_num
    IN  IF piston_num <= Len(dev.pistons) /\ dev.pistons # << >>
        THEN VirtualDevice_send_piston_state([dev EXCEPT !.pistons[index] = activate],
                                             piston_num, activate, timestamp)
        ELSE Quiet(dev)

\* _execute_command flipping the piston instead of setting it
VirtualDevice_execute_command_toggle(dev, command, timestamp) ==
    LET piston_num == command.piston_number
    IN  IF 1 <= piston_num /\ piston_num <= Len(dev.pistons)
        THEN VirtualDevice_send_piston_state([dev EXCEPT !.pistons[piston_num] = ~@],
                                             piston_num, ~dev.pistons[piston_num], timestamp)
        ELSE Quiet(dev)

\* VirtualDevice._execute_command
VirtualDevice_execute_command(dev, command, timestamp) ==
    LET piston_num == command.piston_number
        activate   == command.activate
    IN  IF 1 <= piston_num /\ piston_num <= Len(dev.pistons)
        THEN VirtualDevice_send_piston_state([dev EXCEPT !.pistons[piston_num] = activate],
                                             piston_num, activate, timestamp)
        ELSE Quiet(dev)

\* VirtualDevice._on_message; the exception of _parse_command is caught
VirtualDevice_on_message(dev, data, timestamp) ==
    LET dev0    == [dev EXCEPT !.messages_received = @ + 1]
        command == ParseCommand(data)
    IN  CASE command.type = "raise" -> Quiet([dev0 EXCEPT !.errors = @ + 1])
          [] command.type = "None"  -> Quiet(dev0)
          [] OTHER -> VirtualDevice_execute_command(dev0, command, timestamp)

\* max(lo, v): the upper bound is not applied
Clamp_lower_only(lo, hi, v) == IF v < lo THEN lo ELSE v

\* max(lo, min(hi, v))
Clamp(lo, hi, v) == IF v < lo THEN lo ELSE IF v > hi THEN hi ELSE v

\* simulate_environmental_changes that also raises the error status and
\* counts an error when the battery is empty
VirtualDevice_simulate_environmental_changes_reports(dev, dt, dh, db, ds) ==
    [dev EXCEPT
       !.temperature = Clamp(120, 280, @ + dt),
       !.humidity = Clamp(160, 640, @ + dh),
       !.battery_level =
           IF @.eighths > 0
           THEN IF @.eighths - db > 0 THEN [float |-> TRUE, eighths |-> @.eighths - db]
                ELSE [float |-> FALSE, eighths |-> 0]
           ELSE @,
       !.signal_strength = Clamp(0, 100, @ + ds),
       !.status = IF dev.battery_level.eighths - db <= 0 THEN STATUS_ERROR ELSE @,
       !.errors = IF dev.battery_level.eighths - db <= 0 THEN @ + 1 ELSE @]

\* simulate_environmental_changes without the floor of the battery level
VirtualDevice_simulate_environmental_changes_no_floor(dev, dt, dh, db, ds) ==
    [dev EXCEPT
       !.temperature = Clamp(120, 280, @ + dt),
       !.humidity = Clamp(160, 640, @ + dh),
       !.battery_level = [float |-> TRUE, eighths |-> @.eighths - db],
       !.signal_strength = Clamp(0, 100, @ + ds)]

\* VirtualDevice.simulate_environmental_changes
VirtualDevice_simulate_environmental_changes(dev, dt, dh, db, ds) ==
    [dev EXCEPT
       !.temperature = Clamp(120, 280, @ + dt),
       !.humidity = Clamp(160, 640, @ + dh),
       !.battery_level =
           IF @.eighths > 0
           THEN IF @.eighths - db > 0 THEN [float |-> TRUE, eighths |-> @.eighths - db]
                ELSE [float |-> FALSE, eighths |-> 0]
           ELSE @,
       !.signal_strength = Clamp(0, 100, @ + ds)]

\* DeviceStatus(status).name
DeviceStatusName(status) ==
    CASE status = OFFLINE      -> "OFFLINE"
      [] status = ONLINE       -> "ONLINE"
      [] status = STATUS_ERROR -> "ERROR"

\* sum(1 for p in self.pistons if p.state)
ActivePistons(dev) == Cardinality({ n \in DOMAIN dev.pistons : dev.pistons[n] })

\* get_stats reporting every piston as active
VirtualDevice_get_stats_counts_all(dev) ==
    [device_id |-> UuidStr(UuidBytes(dev.device_id)),
     status |-> DeviceStatusName(dev.status),
     connected |-> dev.connected,
     active_pistons |-> [active |-> Len(dev.pistons), total |-> Len(dev.pistons)],
     battery |-> Format1f(dev.battery_level.eighths),
     signal |-> dev.signal_strength,
     messages_sent |-> dev.messages_sent,
     messages_received |-> dev.messages_received,
     errors |-> dev.errors]

\* VirtualDevice.get_stats; active_pistons is the string "active/total"
VirtualDevice_get_stats(dev) ==
    [device_id |-> UuidStr(UuidBytes(dev.device_id)),
     status |-> DeviceStatusName(dev.status),
     connected |-> dev.connected,
     active_pistons |-> [active |-> ActivePistons(dev), total |-> Len(dev.pistons)],
     battery |-> Format1f(dev.battery_level.eighths),
     signal |-> dev.signal_strength,
     messages_sent |-> dev.messages_sent,
     messages_received |-> dev.messages_received,
     errors |-> dev.errors]

\* the record of a call of client.publish
Handed(i, message, ok) == [device |-> i, payload |-> message, ok |-> ok]

\* the calls of client.publish made by a call r of device i
HandedAll(i, r, ok) == [n \in 1..Len(r.sends) |-> Handed(i, r.sends[n], ok)]

\* the device after the call r, _publish having counted each message
Counted(r, ok) == IF r.sends = << >> THEN r.dev ELSE VirtualDevice_publish(r.dev, ok)

\* the calls of _publish counted by the first n devices
RECURSIVE Counts(_)
Counts(n) ==
    IF n = 0 THEN 0 ELSE devices[n].messages_sent + devices[n].errors + Counts(n - 1)

\* the devices have counted fewer than MaxPublished calls of _publish
Room == Counts(Len(devices)) < MaxPublished

\* the call r of device i takes effect: client.publish returns or raises
Hand(i, r) ==
    \E ok \in BOOLEAN :
        /\ devices' = [devices EXCEPT ![i] = Counted(r, ok)]
        /\ published' = HandedAll(i, r, ok)
        /\ transport' = [transport EXCEPT ![i] = IF ok THEN @ + Len(r.sends) ELSE @]

\* ... while the counters have room
Effect(i, r) ==
    /\ r.sends # << >> => Room
    /\ Hand(i, r)

\* a step that calls client.publish for no device
Silent == published' = << >> /\ transport' = transport

\* the client thread of a device outside _on_message
Idle ==
    [pc |-> "idle", piston_number |-> 0, activate |-> FALSE, entry |-> << >>,
     counter |-> "none", loaded |-> 0]

(***************************************************************************)
(* Initial state: DeviceSimulator.__init__, the codec bench idle           *)
(***************************************************************************)
NoMessage == [kind |-> 0]
NoResult == [by |-> "nothing"]

BenchIdle ==
    [stage |-> "idle", device_id |-> << >>, msg |-> NoMessage, frame |-> << >>, bit |-> 0,
     result |-> NoResult]

InitSystem ==
    /\ devices = << >>
    /\ running = FALSE
    /\ driver = [pc |-> "setup", k |-> 1, j |-> 1]
    /\ link = << >>
    /\ published = << >>
    /\ last = [op |-> "init"]
    /\ callback = << >>
    /\ transport = << >>

Init == InitSystem /\ bench = BenchIdle

Goto(pc) == [pc |-> pc, k |-> 1, j |-> 1]

(***************************************************************************)
(* DeviceSimulator: main(), start_all, stop_all                            *)
(***************************************************************************)
\* DeviceSimulator.add_device
AddDevice(num_pistons, signal) ==
    /\ driver.pc = "setup"
    /\ Len(devices) < Len(DeviceIds)
    /\ num_pistons = PistonCounts[Len(devices) + 1]
    /\ devices' = Append(devices,
                         VirtualDevice_init(DeviceIds[Len(devices) + 1], num_pistons, signal))
    /\ link' = Append(link, "idle")
    /\ callback' = Append(callback, Idle)
    /\ transport' = Append(transport, 0)
    /\ published' = << >>
    /\ last' = [op |-> "add_device", device |-> Len(devices) + 1]
    /\ UNCHANGED << running, driver, bench >>

\* one pass of the loop of start_all: VirtualDevice.connect of device k
StartAllConnect(ok) ==
    /\ driver.pc \in {"setup", "starting"}
    /\ driver.k <= Len(devices)
    /\ LET k == driver.k
       IN  /\ devices' = [devices EXCEPT ![k] =
                             IF ok THEN [@ EXCEPT !.running = TRUE]
                             ELSE [@ EXCEPT !.errors = @ + 1]]
           /\ link' = [link EXCEPT ![k] = IF ok THEN "connecting" ELSE @]
           /\ driver' = [pc |-> "starting", k |-> k + 1, j |-> 1]
           /\ last' = [op |-> "connect", device |-> k]
    /\ Silent
    /\ UNCHANGED << running, bench, callback >>

\* the end of start_all
StartAllReturn ==
    /\ driver.pc \in {"setup", "starting"}
    /\ driver.k > Len(devices)
    /\ running' = TRUE
    /\ driver' = Goto("menu")
    /\ last' = [op |-> "start_all"]
    /\ Silent
    /\ UNCHANGED << devices, link, bench, callback >>

\* menu option 8: stop_all begins
StopAllBegin ==
    /\ driver.pc = "menu"
    /\ running' = FALSE
    /\ driver' = Goto("stopping")
    /\ last' = [op |-> "stop_all"]
    /\ Silent
    /\ UNCHANGED << devices, link, bench, callback >>

\* one pass of the loop of stop_all, VirtualDevice.disconnect of device k up
\* to its time.sleep(0.5); an exception of send_status_update leaves stop_all
\* and main()
StopAllDisconnectDevice ==
    /\ driver.pc = "stopping"
    /\ driver.k <= Len(devices)
    /\ driver.j = 1
    /\ LET k == driver.k
           r == VirtualDevice_send_status_update(
                    [devices[k] EXCEPT !.running = FALSE, !.status = OFFLINE])
       IN  /\ Hand(k, r)
           /\ driver' = IF r.raised THEN Goto("crashed") ELSE [driver EXCEPT !.j = 2]
           /\ last' = [op |-> "disconnect", device |-> k, raised |-> r.raised]
    /\ UNCHANGED << running, link, bench, callback >>

\* ... while the counters have room
StopAllDisconnect ==
    /\ driver.pc = "stopping"
    /\ driver.k <= Len(devices)
    /\ ~StatusUpdateRaises(devices[driver.k].battery_level) => Room
    /\ StopAllDisconnectDevice

\* ... then client.loop_stop(), which joins the client thread (a callback in
\* progress ends first), and client.disconnect()
StopAllJoin ==
    /\ driver.pc = "stopping"
    /\ driver.k <= Len(devices)
    /\ driver.j = 2
    /\ callback[driver.k].pc = "idle"
    /\ link' = [link EXCEPT ![driver.k] = "closed"]
    /\ driver' = [pc |-> "stopping", k |-> driver.k + 1, j |-> 1]
    /\ last' = [op |-> "loop_stop", device |-> driver.k]
    /\ Silent
    /\ UNCHANGED << devices, running, bench, callback >>

\* the end of stop_all
StopAllReturn ==
    /\ driver.pc = "stopping"
    /\ driver.k > Len(devices)
    /\ driver' = Goto("done")
    /\ last' = [op |-> "stopped"]
    /\ Silent
    /\ UNCHANGED << devices, running, link, bench, callback >>

\* menu option 6: DeviceSimulator.print_stats
PrintStats ==
    /\ driver.pc = "menu"
    /\ last' = [op |-> "print_stats",
                stats |-> [i \in 1..Len(devices) |-> VirtualDevice_get_stats(devices[i])]]
    /\ Silent
    /\ UNCHANGED << devices, running, driver, link, bench, callback >>

(***************************************************************************)
(* Callbacks of the MQTT client thread of a device                         *)
(***************************************************************************)
\* _on_connect sending the status before it sets connected and status
OnConnect_status_first(i, rc) ==
    /\ i \in 1..Len(devices)
    /\ link[i] = "connecting"
    /\ callback[i].pc = "idle"
    /\ IF rc = 0
       THEN LET r  == VirtualDevice_send_status_update(devices[i])
                r1 == [r EXCEPT !.dev = [@ EXCEPT !.connected = TRUE, !.status = ONLINE]]
            IN  /\ Effect(i, r1)
                /\ link' = [link EXCEPT ![i] = IF r.raised THEN "failed" ELSE "subscribed"]
       ELSE /\ link' = [link EXCEPT ![i] = "refused"]
            /\ Silent
            /\ UNCHANGED devices
    /\ last' = [op |-> "on_connect", device |-> i, rc |-> rc]
    /\ UNCHANGED << running, driver, bench, callback >>

\* VirtualDevice._on_connect; an exception of send_status_update ends the thread
OnConnect(i, rc) ==
    /\ i \in 1..Len(devices)
    /\ link[i] = "connecting"
    /\ callback[i].pc = "idle"
    /\ IF rc = 0
       THEN LET r == VirtualDevice_send_status_update(
                         [devices[i] EXCEPT !.connected = TRUE, !.status = ONLINE])
            IN  /\ Effect(i, r)
                /\ link' = [link EXCEPT ![i] = IF r.raised THEN "failed" ELSE "subscribed"]
       ELSE /\ link' = [link EXCEPT ![i] = "refused"]
            /\ Silent
            /\ UNCHANGED devices
    /\ last' = [op |-> "on_connect", device |-> i, rc |-> rc]
    /\ UNCHANGED << running, driver, bench, callback >>

\* VirtualDevice._on_disconnect; the client then reconnects by itself
OnDisconnect(i) ==
    /\ i \in 1..Len(devices)
    /\ link[i] = "subscribed"
    /\ callback[i].pc = "idle"
    /\ devices' = [devices EXCEPT ![i] = [@ EXCEPT !.connected = FALSE, !.status = OFFLINE]]
    /\ link' = [link EXCEPT ![i] = "connecting"]
    /\ last' = [op |-> "on_disconnect", device |-> i]
    /\ Silent
    /\ UNCHANGED << running, driver, bench, callback >>

\* VirtualDevice._on_message: the whole callback when it runs no command,
\* and up to the time.sleep(0.1) of _execute_command when it has set a piston
OnMessage(i, data, timestamp) ==
    /\ i \in 1..Len(devices)
    /\ link[i] = "subscribed"
    /\ callback[i].pc = "idle"
    /\ devices[i].messages_received < MaxReceived
    /\ LET r       == VirtualDevice_on_message(devices[i], data, timestamp)
           command == ParseCommand(data)
       IN  /\ devices' = [devices EXCEPT ![i] = r.dev]
           /\ callback' = [callback EXCEPT ![i] =
                              IF r.sends = << >> THEN Idle
                              ELSE [Idle EXCEPT !.pc = "sleep",
                                                !.piston_number = command.piston_number,
                                                !.activate = command.activate,
                                                !.entry = devices[i].pistons]]
    /\ last' = [op |-> "on_message", device |-> i, data |-> data]
    /\ Silent
    /\ UNCHANGED << running, driver, link, bench >>

\* ... then send_piston_state up to client.publish, which returns (ok) or
\* raises, and the read of the counter that self.messages_sent += 1 or
\* self.errors += 1 is about to write
OnMessageSend(i, ok, timestamp) ==
    /\ i \in 1..Len(devices)
    /\ callback[i].pc = "sleep"
    /\ LET r == VirtualDevice_send_piston_state(devices[i], callback[i].piston_number,
                                                callback[i].activate, timestamp)
       IN  /\ published' = HandedAll(i, r, ok)
           /\ transport' = [transport EXCEPT ![i] = IF ok THEN @ + Len(r.sends) ELSE @]
    /\ callback' = [callback EXCEPT ![i] =
                       [@ EXCEPT !.pc = "count",
                                 !.counter = IF ok THEN "messages_sent" ELSE "errors",
                                 !.loaded = IF ok THEN devices[i].messages_sent
                                            ELSE devices[i].errors]]
    /\ last' = [op |-> "on_message_publish", device |-> i]
    /\ UNCHANGED << devices, running, driver, link, bench >>

\* ... while the counters have room
OnMessagePublish(i, ok, timestamp) == Room /\ OnMessageSend(i, ok, timestamp)

\* ... then the write of the counter, and the return of the callback
OnMessageReturn(i) ==
    /\ i \in 1..Len(devices)
    /\ callback[i].pc = "count"
    /\ devices' = [devices EXCEPT ![i] =
                      IF callback[i].counter = "messages_sent"
                      THEN VirtualDevice_publish(
                               [@ EXCEPT !.messages_sent = callback[i].loaded], TRUE)
                      ELSE VirtualDevice_publish(
                               [@ EXCEPT !.errors = callback[i].loaded], FALSE)]
    /\ callback' = [callback EXCEPT ![i] = Idle]
    /\ last' = [op |-> "on_message_return", device |-> i,
                piston_number |-> callback[i].piston_number,
                activate |-> callback[i].activate, entry |-> callback[i].entry]
    /\ Silent
    /\ UNCHANGED << running, driver, link, bench >>

\* VirtualDevice._on_message from its entry to its return, no other thread
\* running meanwhile
OnMessageWhole(i, data, timestamp) ==
    /\ i \in 1..Len(devices)
    /\ link[i] = "subscribed"
    /\ callback[i].pc = "idle"
    /\ devices[i].messages_received < MaxReceived
    /\ Effect(i, VirtualDevice_on_message(devices[i], data, timestamp))
    /\ last' = [op |-> "on_message", device |-> i, data |-> data]
    /\ UNCHANGED << running, driver, link, bench, callback >>

(***************************************************************************)
(* DeviceSimulator.run_scenario and the scenarios                          *)
(***************************************************************************)
Scenarios ==
    {"random_activity", "sequential_pistons", "stress_test", "telemetry_stream",
     "error_simulation"}

\* an exception leaves the menu loop: the finally clause of main() runs stop_all
Raise == Goto("stopping")

\* DeviceSimulator.run_scenario
RunScenario(scenario_name) ==
    /\ driver.pc = "menu"
    /\ driver' = IF scenario_name = "sequential_pistons"
                 THEN [pc |-> scenario_name, k |-> 1, j |-> 1,
                       received |-> [i \in 1..Len(devices) |->
                                        devices[i].messages_received]]
                 ELSE IF scenario_name \in Scenarios THEN Goto(scenario_name)
                 ELSE driver
    /\ last' = [op |-> "run_scenario", name |-> scenario_name]
    /\ Silent
    /\ UNCHANGED << devices, running, link, bench, callback >>

\* the wall-clock bound of a timed scenario has passed at the head of its loop
ScenarioTimeout ==
    /\ driver.pc \in {"random_activity", "stress_test", "telemetry_stream"}
    /\ driver.k = 1 /\ driver.j = 1
    /\ driver' = Goto("menu")
    /\ last' = [op |-> "scenario_timeout"]
    /\ Silent
    /\ UNCHANGED << devices, running, link, bench, callback >>

\* the end of the loop over the devices of an untimed scenario
ScenarioReturn ==
    /\ driver.pc \in {"sequential_pistons", "error_simulation"}
    /\ driver.k > Len(devices)
    /\ driver' = Goto("menu")
    /\ last' = [op |-> "scenario_return"]
    /\ Silent
    /\ UNCHANGED << devices, running, link, bench, callback >>

\* one pass of the loop of _scenario_random_activity; random.choice raises
\* IndexError on an empty list
RandomActivityStep(i, p, timestamp) ==
    /\ driver.pc = "random_activity"
    /\ running
    /\ IF devices = << >> \/ (i \in 1..Len(devices) /\ devices[i].pistons = << >>)
       THEN /\ driver' = Raise
            /\ running' = FALSE
            /\ last' = [op |-> "random_activity", raised |-> TRUE]
            /\ Silent
            /\ UNCHANGED devices
       ELSE /\ i \in 1..Len(devices)
            /\ p \in 1..Len(devices[i].pistons)
            /\ LET dev1 == [devices[i] EXCEPT !.pistons[p] = ~@]
               IN  Effect(i, VirtualDevice_send_piston_state(dev1, p, dev1.pistons[p],
                                                             timestamp))
            /\ last' = [op |-> "random_activity", raised |-> FALSE, device |-> i, piston |-> p]
            /\ UNCHANGED << driver, running >>
    /\ UNCHANGED << link, bench, callback >>

\* _scenario_sequential_pistons deactivating the pistons from the last to
\* the first
SequentialPiston_descending(timestamp) ==
    /\ driver.pc = "sequential_pistons"
    /\ driver.k <= Len(devices)
    /\ driver.j <= 2 * Len(devices[driver.k].pistons)
    /\ LET k    == driver.k
           n    == Len(devices[k].pistons)
           on   == driver.j <= n
           p    == IF on THEN driver.j ELSE 2 * n + 1 - driver.j
           dev1 == [devices[k] EXCEPT !.pistons[p] = on]
       IN  /\ Hand(k, VirtualDevice_send_piston_state(dev1, p, on, timestamp))
           /\ last' = [op |-> "sequential_pistons", device |-> k, piston |-> p, state |-> on]
    /\ driver' = [driver EXCEPT !.j = @ + 1]
    /\ UNCHANGED << running, link, bench, callback >>

\* one piston of _scenario_sequential_pistons: pistons 1..N of device k are
\* activated for j = 1..N and deactivated for j = N+1..2N
SequentialPiston(timestamp) ==
    /\ driver.pc = "sequential_pistons"
    /\ driver.k <= Len(devices)
    /\ driver.j <= 2 * Len(devices[driver.k].pistons)
    /\ LET k    == driver.k
           n    == Len(devices[k].pistons)
           on   == driver.j <= n
           p    == IF on THEN driver.j ELSE driver.j - n
           dev1 == [devices[k] EXCEPT !.pistons[p] = on]
       IN  /\ Hand(k, VirtualDevice_send_piston_state(dev1, p, on, timestamp))
           /\ last' = [op |-> "sequential_pistons", device |-> k, piston |-> p, state |-> on]
    /\ driver' = [driver EXCEPT !.j = @ + 1]
    /\ UNCHANGED << running, link, bench, callback >>

\* ... while the counters have room
SequentialStep(timestamp) == Room /\ SequentialPiston(timestamp)

\* the wave of device k is complete
SequentialNext ==
    /\ driver.pc = "sequential_pistons"
    /\ driver.k <= Len(devices)
    /\ driver.j > 2 * Len(devices[driver.k].pistons)
    /\ driver' = [driver EXCEPT !.k = @ + 1, !.j = 1]
    /\ last' = [op |-> "wave_complete", device |-> driver.k]
    /\ Silent
    /\ UNCHANGED << devices, running, link, bench, callback >>

\* device k of one pass of _scenario_stress_test; random.randint(1, 0) raises
\* ValueError
StressStep(piston_num, state, timestamp) ==
    /\ driver.pc = "stress_test"
    /\ running
    /\ driver.k <= Len(devices)
    /\ LET k == driver.k
       IN  IF devices[k].pistons = << >>
           THEN /\ driver' = Raise
                /\ running' = FALSE
                /\ last' = [op |-> "stress_test", raised |-> TRUE]
                /\ Silent
                /\ UNCHANGED devices
           ELSE /\ piston_num \in 1..Len(devices[k].pistons)
                /\ Effect(k, VirtualDevice_send_piston_state(devices[k], piston_num, state,
                                                             timestamp))
                /\ driver' = [driver EXCEPT !.k = IF k = Len(devices) THEN 1 ELSE k + 1]
                /\ last' = [op |-> "stress_test", raised |-> FALSE, device |-> k,
                            piston |-> piston_num, state |-> state]
                /\ UNCHANGED running
    /\ UNCHANGED << link, bench, callback >>

\* device k of one pass of _scenario_telemetry_stream, up to its first sleep:
\* simulate_environmental_changes and the temperature telemetry
TelemetryTemperature(dt, dh, db, ds, timestamp) ==
    /\ driver.pc = "telemetry_stream"
    /\ running
    /\ driver.k <= Len(devices)
    /\ driver.j = 1
    /\ LET k    == driver.k
           dev1 == VirtualDevice_simulate_environmental_changes(devices[k], dt, dh, db, ds)
       IN  /\ Effect(k, VirtualDevice_send_telemetry(dev1, "temperature", dev1.temperature,
                                                     timestamp))
           /\ last' = [op |-> "telemetry_temperature", device |-> k]
    /\ driver' = [driver EXCEPT !.j = 2]
    /\ UNCHANGED << running, link, bench, callback >>

\* ... then the humidity telemetry, up to the second sleep
TelemetryHumidity(timestamp) ==
    /\ driver.pc = "telemetry_stream"
    /\ driver.k <= Len(devices)
    /\ driver.j = 2
    /\ LET k == driver.k
       IN  /\ Effect(k, VirtualDevice_send_telemetry(devices[k], "humidity",
                                                     devices[k].humidity, timestamp))
           /\ last' = [op |-> "telemetry_humidity", device |-> k]
    /\ driver' = [driver EXCEPT !.j = 3]
    /\ UNCHANGED << running, link, bench, callback >>

\* ... then the status update, which ends the pass over device k
TelemetryStatus ==
    /\ driver.pc = "telemetry_stream"
    /\ driver.k <= Len(devices)
    /\ driver.j = 3
    /\ LET k == driver.k
           r == VirtualDevice_send_status_update(devices[k])
       IN  /\ Effect(k, r)
           /\ driver' = IF r.raised THEN Raise
                        ELSE [driver EXCEPT !.k = IF k = Len(devices) THEN 1 ELSE k + 1,
                                            !.j = 1]
           /\ running' = IF r.raised THEN FALSE ELSE running
           /\ last' = [op |-> "telemetry_status", device |-> k, raised |-> r.raised]
    /\ UNCHANGED << link, bench, callback >>

\* device k of _scenario_error_simulation
ErrorStep(condition) ==
    /\ driver.pc = "error_simulation"
    /\ driver.k <= Len(devices)
    /\ LET k == driver.k
       IN  /\ Effect(k, VirtualDevice_send_error(devices[k], condition[1], condition[2]))
           /\ last' = [op |-> "error_simulation", device |-> k]
    /\ driver' = [driver EXCEPT !.k = @ + 1]
    /\ UNCHANGED << running, link, bench, callback >>

(***************************************************************************)
(* The system: main() and the callbacks of the device clients              *)
(***************************************************************************)
Next ==
    \/ \E n \in 0..8, sig \in SignalInit : AddDevice(n, sig)
    \/ \E ok \in BOOLEAN : StartAllConnect(ok)
    \/ StartAllReturn
    \/ PrintStats
    \/ StopAllBegin
    \/ StopAllDisconnect
    \/ StopAllJoin
    \/ StopAllReturn
    \/ \E i \in 1..Len(devices), rc \in {0, 5} : OnConnect(i, rc)
    \/ \E i \in 1..Len(devices) : OnDisconnect(i)
    \/ \E i \in Commanded, data \in InboundFrames, t \in Clock : OnMessage(i, data, t)
    \/ \E i \in Commanded, ok \in BOOLEAN, t \in Clock : OnMessagePublish(i, ok, t)
    \/ \E i \in Commanded : OnMessageReturn(i)
    \/ \E name \in Scenarios \cup {"unknown"} : RunScenario(name)
    \/ ScenarioTimeout
    \/ ScenarioReturn
    \/ \E i \in 1..(Len(devices) + 1), p \in 1..2, t \in Clock : RandomActivityStep(i, p, t)
    \/ \E t \in Clock : SequentialStep(t)
    \/ SequentialNext
    \/ \E p \in 1..2, st \in BOOLEAN, t \in Clock : StressStep(p, st, t)
    \/ \E dt \in TemperatureDeltas, dh \in HumidityDeltas, db \in BatteryDrains,
          ds \in SignalDeltas, t \in Clock : TelemetryTemperature(dt, dh, db, ds, t)
    \/ \E t \in Clock : TelemetryHumidity(t)
    \/ TelemetryStatus
    \/ \E c \in ErrorConditions : ErrorStep(c)

Spec == Init /\ [][Next]_vars

(***************************************************************************)
(* main() with option 2 as the only choice of the menu: a wave is started  *)
(* while the counters have room and is followed to its end                 *)
(***************************************************************************)
NextWave ==
    \/ \E n \in 0..8, sig \in SignalInit : AddDevice(n, sig)
    \/ \E ok \in BOOLEAN : StartAllConnect(ok)
    \/ StartAllReturn
    \/ \E i \in 1..Len(devices), rc \in {0, 5} : OnConnect(i, rc)
    \/ \E i \in Commanded, data \in InboundFrames, t \in Clock : OnMessage(i, data, t)
    \/ \E i \in Commanded, ok \in BOOLEAN, t \in Clock : OnMessagePublish(i, ok, t)
    \/ \E i \in Commanded : OnMessageReturn(i)
    \/ Room /\ RunScenario("sequential_pistons")
    \/ \E t \in Clock : SequentialPiston(t)
    \/ SequentialNext
    \/ ScenarioReturn

SpecWave == Init /\ [][NextWave]_vars

(***************************************************************************)
(* main() and the callbacks executed by a single actor: each operation     *)
(* runs from its entry to its return before the next one starts            *)
(***************************************************************************)
NextSolo ==
    \/ \E n \in 0..8, sig \in SignalInit : AddDevice(n, sig)
    \/ \E ok \in BOOLEAN : StartAllConnect(ok)
    \/ StartAllReturn
    \/ PrintStats
    \/ StopAllBegin
    \/ StopAllDisconnect
    \/ StopAllJoin
    \/ StopAllReturn
    \/ \E i \in 1..Len(devices), rc \in {0, 5} : OnConnect(i, rc)
    \/ \E i \in 1..Len(devices) : OnDisconnect(i)
    \/ \E i \in Commanded, data \in InboundFrames, t \in Clock : OnMessageWhole(i, data, t)
    \/ \E name \in Scenarios \cup {"unknown"} : RunScenario(name)
    \/ ScenarioTimeout
    \/ ScenarioReturn
    \/ \E i \in 1..(Len(devices) + 1), p \in 1..2, t \in Clock : RandomActivityStep(i, p, t)
    \/ \E t \in Clock : SequentialStep(t)
    \/ SequentialNext
    \/ \E p \in 1..2, st \in BOOLEAN, t \in Clock : StressStep(p, st, t)
    \/ \E dt \in TemperatureDeltas, dh \in HumidityDeltas, db \in BatteryDrains,
          ds \in SignalDeltas, t \in Clock : TelemetryTemperature(dt, dh, db, ds, t)
    \/ \E t \in Clock : TelemetryHumidity(t)
    \/ TelemetryStatus
    \/ \E c \in ErrorConditions : ErrorStep(c)

SpecSolo == Init /\ [][NextSolo]_vars

(***************************************************************************)
(* simulate_environmental_changes on its own: one of two devices, the      *)
(* first new or worn by earlier calls, the second connected and Online, is *)
(* ticked up to MaxTicks times                                             *)
(***************************************************************************)
\* a new device, and devices as many calls leave them: the battery nearly or
\* wholly drained, temperature, humidity and signal near their bounds
EnvStarts ==
    { VirtualDevice_init(DeviceIds[1], 1, sig) : sig \in {70, 100} }
    \cup { [VirtualDevice_init(DeviceIds[1], 1, w[3]) EXCEPT
               !.battery_level = b, !.temperature = w[1], !.humidity = w[2]] :
             b \in { [float |-> TRUE, eighths |-> 3], [float |-> TRUE, eighths |-> 1],
                     [float |-> FALSE, eighths |-> 0] },
             w \in { << 122, 162, 3 >>, << 278, 638, 98 >> } }

\* random.uniform(-0.5, 0.5), random.uniform(-2.0, 2.0) and
\* random.uniform(0.1, 0.3) in eighths, random.randint(-5, 5): the extremes
EnvTemperatureDeltas == {-4, 4}
EnvHumidityDeltas == {-16, 16}
EnvBatteryDrains == {1, 2}
EnvSignalDeltas == {-5, 5}

\* a second device as start_all and two commands leave it: connected, Online,
\* piston 2 active, its counters raised
EnvNeighbour ==
    [VirtualDevice_init(DeviceIds[2], 2, 70) EXCEPT
        !.pistons = [n \in 1..2 |-> n = 2], !.status = ONLINE, !.running = TRUE,
        !.connected = TRUE, !.messages_sent = 2, !.messages_received = 2, !.errors = 1]

\* driver.k is the device the driver ticks
InitEnv ==
    /\ devices \in { << d, EnvNeighbour >> : d \in EnvStarts }
    /\ running = FALSE
    /\ driver \in { [Goto("tick") EXCEPT !.k = i] : i \in 1..2 }
    /\ link = << "idle", "subscribed" >>
    /\ published = << >>
    /\ last = [op |-> "init"]
    /\ callback = << Idle, Idle >>
    /\ transport = << 0, 2 >>
    /\ bench = BenchIdle

\* device.simulate_environmental_changes()
Tick(dt, dh, db, ds) ==
    /\ driver.pc = "tick"
    /\ driver.j <= MaxTicks
    /\ devices' = [devices EXCEPT ![driver.k] =
                      VirtualDevice_simulate_environmental_changes(@, dt, dh, db, ds)]
    /\ driver' = [driver EXCEPT !.j = @ + 1]
    /\ last' = [op |-> "tick"]
    /\ UNCHANGED << running, link, published, bench, callback, transport >>

NextEnv ==
    \E dt \in EnvTemperatureDeltas, dh \in EnvHumidityDeltas, db \in EnvBatteryDrains,
       ds \in EnvSignalDeltas : Tick(dt, dh, db, ds)

SpecEnv == InitEnv /\ [][NextEnv]_vars

(***************************************************************************)
(* stop_all against the client threads: the devices are started and the    *)
(* driver is at the menu; commands arrive, the broker drops connections,   *)
(* and stop_all runs while callbacks are in progress. _on_disconnect is    *)
(* taken statement by statement.                                           *)
(***************************************************************************)
\* device k of main() after start_all: connect() and _on_connect have run
StartedDevice(k) ==
    Counted(VirtualDevice_send_status_update(
                [VirtualDevice_init(DeviceIds[k], PistonCounts[k], 100) EXCEPT
                    !.running = TRUE, !.connected = TRUE, !.status = ONLINE]), TRUE)

InitStop ==
    /\ devices = [k \in 1..Len(DeviceIds) |-> StartedDevice(k)]
    /\ running = TRUE
    /\ driver = Goto("menu")
    /\ link = [k \in 1..Len(DeviceIds) |-> "subscribed"]
    /\ published = << >>
    /\ last = [op |-> "start_all"]
    /\ callback = [k \in 1..Len(DeviceIds) |-> Idle]
    /\ transport = [k \in 1..Len(DeviceIds) |-> 1]
    /\ bench = BenchIdle

\* _on_disconnect: self.connected = False ...
OnDisconnectFlag(i) ==
    /\ i \in 1..Len(devices)
    /\ link[i] = "subscribed"
    /\ callback[i].pc = "idle"
    /\ devices' = [devices EXCEPT ![i] = [@ EXCEPT !.connected = FALSE]]
    /\ callback' = [callback EXCEPT ![i] = [Idle EXCEPT !.pc = "on_disconnect"]]
    /\ last' = [op |-> "on_disconnect_flag", device |-> i]
    /\ Silent
    /\ UNCHANGED << running, driver, link, bench >>

\* ... then self.status = DeviceStatus.OFFLINE, and the return of the callback
OnDisconnectStatus(i) ==
    /\ i \in 1..Len(devices)
    /\ callback[i].pc = "on_disconnect"
    /\ devices' = [devices EXCEPT ![i] = [@ EXCEPT !.status = OFFLINE]]
    /\ callback' = [callback EXCEPT ![i] = Idle]
    /\ link' = [link EXCEPT ![i] = "connecting"]
    /\ last' = [op |-> "on_disconnect", device |-> i]
    /\ Silent
    /\ UNCHANGED << running, driver, bench >>

NextStop ==
    \/ PrintStats
    \/ StopAllBegin
    \/ StopAllDisconnectDevice
    \/ StopAllJoin
    \/ StopAllReturn
    \/ \E i \in 1..Len(devices) : OnDisconnectFlag(i)
    \/ \E i \in 1..Len(devices) : OnDisconnectStatus(i)
    \/ \E i \in Commanded, data \in InboundFrames, t \in Clock : OnMessage(i, data, t)
    \/ \E i \in Commanded, ok \in BOOLEAN, t \in Clock : OnMessageSend(i, ok, t)
    \/ \E i \in Commanded : OnMessageReturn(i)

SpecStop == InitStop /\ [][NextStop]_vars

(***************************************************************************)
(* The codec on its own: a message is encoded, a bit of the frame may be   *)
(* flipped, and the frame (or a raw byte string) is decoded, checksummed   *)
(* or delivered to a device                                                *)
(***************************************************************************)
BenchMessages ==
    { [kind |-> PISTON_STATE, piston_number |-> m[1], is_active |-> m[2], timestamp |-> m[3]] :
          m \in { << 3, TRUE, 0 >>, << 2, FALSE, 86400123 >>, << 255, TRUE, 86400123 >>,
                  << 0, FALSE, 0 >> } }
    \cup { [kind |-> STATUS_UPDATE, status |-> m[1],
            battery_level |-> [float |-> FALSE, eighths |-> m[2]], signal_strength |-> m[3]] :
          m \in { << OFFLINE, 800, 85 >>, << ONLINE, 808, 100 >>, << STATUS_ERROR, 0, 101 >>,
                  << 3, 400, 0 >> } }
    \cup { [kind |-> TELEMETRY, sensor_type |-> m[1], value |-> m[2], timestamp |-> m[3]] :
          m \in { << "temperature", 200, 86400123 >>, << "pressure", 8106, 0 >>,
                  << "humidity", 203, 86400123 >>, << "voltage", 201, 0 >> } }
    \cup { [kind |-> ERROR, error_code |-> c[1], error_message |-> c[2]] :
          c \in { << 503, << >> >>, << 404, << 65, 233 >> >>,
                  << 101, << 76, 111, 119, 32, 98, 97, 116, 116, 101, 114, 121, 32, 119,
                             97, 114, 110, 105, 110, 103 >> >> } }

\* the messages of the bench and the device that sends each
BenchSent ==
    { << DeviceIds[1], m >> : m \in BenchMessages }
    \cup { << NearId, m >> : m \in { n \in BenchMessages : n.kind = PISTON_STATE
                                                            /\ n.piston_number = 2 } }

\* the fixed minimum of the payload of each kind, as the parsers of the
\* monitor check it
SchemaMinimum(kind) ==
    CASE kind = PISTON_STATE  -> 10
      [] kind = STATUS_UPDATE -> 3
      [] kind = TELEMETRY     -> 13
      [] kind = ERROR         -> 4

\* checksum-valid frames of each kind whose payload is one byte short of that
\* minimum, and a piston command of two bytes
ShortPayloadFrames ==
    { BackendFrame(DeviceIds[1], kind, [n \in 1..(SchemaMinimum(kind) - 1) |->
                                            IF n = 1 THEN 2 ELSE IF n = 2 THEN 1 ELSE 0]) :
          kind \in {PISTON_STATE, STATUS_UPDATE, TELEMETRY, ERROR} }
    \cup { BackendFrame(DeviceIds[1], PISTON_STATE, << 2, 1 >>) }

BenchBytes ==
    InboundFrames \cup ShortPayloadFrames \cup { << 0 >>, << 1, 2 >>, << 255, 0, 7 >> }

\* the byte strings of the bench whose two trailing bytes are not the CRC16
\* of the bytes before them
BenchBadChecksum ==
    { data \in BenchBytes :
          /\ Len(data) >= 19
          /\ UnpackH(SubSeq(data, Len(data) - 1, Len(data))) # Backend_crc16(DropCrc(data)) }

\* what is wrong with the frame of the bench: it is under the minimum size
\* of 19 bytes, its checksum does not match (it is one of BenchBadChecksum,
\* or the transport flipped one of its bits), its kind is recognized and its
\* payload is under the minimum of the kind, or its kind is not recognized
BenchFault ==
    LET data == bench.frame
    IN  IF Len(data) < 19 THEN "TooShort"
        ELSE IF bench.bit # 0 \/ data \in BenchBadChecksum THEN "ChecksumMismatch"
        ELSE IF data[1] \notin {PISTON_STATE, STATUS_UPDATE, TELEMETRY, ERROR}
        THEN "UnknownKind"
        ELSE IF Len(FromToCrc(data, 17)) < SchemaMinimum(data[1]) THEN "PayloadTooShort"
        ELSE "none"


BenchInputs ==
    { [stage |-> "message", device_id |-> u, msg |-> m, frame |-> << >>, bit |-> 0,
       result |-> NoResult] : << u, m >> \in BenchSent }
    \cup { [stage |-> "bytes", device_id |-> << >>, msg |-> NoMessage, frame |-> b, bit |-> 0,
            result |-> NoResult] : b \in BenchBytes }

\* the device of the bench: connected, its status update sent, its first
\* piston activated by a command and confirmed, its second piston idle
BenchDevice ==
    [VirtualDevice_init(DeviceIds[1], 2, 100) EXCEPT
        !.running = TRUE, !.connected = TRUE, !.status = ONLINE,
        !.pistons[1] = TRUE, !.messages_sent = 2, !.messages_received = 1]

\* data with its n-th bit flipped, bit 1 being the lowest bit of the first byte
FlipBit(data, n) ==
    LET k == ((n - 1) \div 8) + 1
    IN  [data EXCEPT ![k] = Xor(@, Pow2((n - 1) % 8))]

InitCodec == InitSystem /\ bench \in BenchInputs

\* a send_* method builds the frame of the message
BenchEncode ==
    /\ bench.stage = "message"
    /\ bench' = [bench EXCEPT !.stage = "frame",
                              !.frame = EncodeMessage(bench.device_id, bench.msg)]
    /\ UNCHANGED sysvars

\* the transport flips one bit of the frame
BenchFlip(n) ==
    /\ bench.stage = "frame"
    /\ n \in 1..(8 * Len(bench.frame))
    /\ bench' = [bench EXCEPT !.stage = "flipped", !.frame = FlipBit(@, n), !.bit = n]
    /\ UNCHANGED sysvars

\* BinaryMessageDecoder.decode of scripts/mqtt_binary_monitor.py
BenchMonitorDecode ==
    /\ bench.stage \in {"bytes", "frame", "flipped"}
    /\ bench' = [bench EXCEPT !.stage = "decoded",
                              !.result = [by |-> "monitor", r |-> Monitor_decode(bench.frame)]]
    /\ UNCHANGED sysvars

\* BinaryMessageDecoder.decode_binary_message of scripts/mqtt_message_decoder.py
BenchDecoderDecode ==
    /\ bench.stage \in {"bytes", "frame", "flipped"}
    /\ bench' = [bench EXCEPT !.stage = "decoded",
                              !.result = [by |-> "decoder",
                                          r |-> Decoder_decode_binary_message(bench.frame)]]
    /\ UNCHANGED sysvars

\* every calculate_crc16 of the repository on the same bytes
BenchCrc ==
    /\ bench.stage \in {"bytes", "frame"}
    /\ bench' = [bench EXCEPT !.stage = "checksummed",
                              !.result = [by |-> "crc",
                                          simulator |-> VirtualDevice_calculate_crc16(bench.frame),
                                          monitor |-> Monitor_calculate_crc16(bench.frame),
                                          client |-> Client_calculate_crc16(bench.frame),
                                          client_fixed |-> ClientFixed_calculate_crc16(bench.frame),
                                          test_crc |-> TestCrc_calculate_crc16(bench.frame),
                                          decoder |-> Decoder_calculate_crc16(bench.frame)]]
    /\ UNCHANGED sysvars

\* VirtualDevice._on_message of a device handed the bytes
BenchDeviceReceive(timestamp) ==
    /\ bench.stage \in {"bytes", "flipped"}
    /\ bench' = [bench EXCEPT !.stage = "received",
                              !.result = [by |-> "device",
                                          r |-> VirtualDevice_on_message(BenchDevice, bench.frame,
                                                                         timestamp)]]
    /\ UNCHANGED sysvars

\* the backend sends again a command the device has executed:
\* VirtualDevice._on_message of the same bytes once more
BenchDeviceReceiveAgain(timestamp) ==
    /\ bench.stage = "received"
    /\ bench.result.r.sends # << >>
    /\ bench' = [bench EXCEPT !.stage = "received_again",
                              !.result = [by |-> "device",
                                          first |-> bench.result.r,
                                          r |-> VirtualDevice_on_message(bench.result.r.dev,
                                                                         bench.frame, timestamp)]]
    /\ UNCHANGED sysvars

\* the command that deactivates piston 1
FollowUpCommand == BackendFrame(DeviceIds[1], PISTON_STATE, << 1, 0 >> \o PackQ(0))

\* a valid command arrives after a frame that was too short, failed its
\* checksum or had too short a payload: VirtualDevice._on_message of it
BenchDeviceReceiveCommand(timestamp) ==
    /\ bench.stage = "received"
    /\ BenchFault \in {"TooShort", "ChecksumMismatch", "PayloadTooShort"}
    /\ bench' = [bench EXCEPT !.stage = "received_command",
                              !.result = [by |-> "device",
                                          first |-> bench.result.r,
                                          r |-> VirtualDevice_on_message(bench.result.r.dev,
                                                                         FollowUpCommand,
                                                                         timestamp)]]
    /\ UNCHANGED sysvars

\* BinaryProtocolClient._on_message of scripts/binary_device_client.py:
\* _parse_command of the bytes
BenchClientReceive ==
    /\ bench.stage \in {"bytes", "flipped"}
    /\ bench' = [bench EXCEPT !.stage = "parsed",
                              !.result = [by |-> "client",
                                          r |-> ClientFixed_parse_command(bench.frame)]]
    /\ UNCHANGED sysvars

NextCodec ==
    \/ BenchEncode
    \/ \E n \in 1..MaxFrameBits : BenchFlip(n)
    \/ BenchMonitorDecode
    \/ BenchDecoderDecode
    \/ BenchCrc
    \/ \E t \in Clock : BenchDeviceReceive(t)
    \/ \E t \in Clock : BenchDeviceReceiveAgain(t)
    \/ \E t \in Clock : BenchDeviceReceiveCommand(t)
    \/ BenchClientReceive

SpecCodec == InitCodec /\ [][NextCodec]_vars

C2_BadChecksumNeverApplied ==
    [][ (last'.op = "on_message" /\ last'.data \in BadChecksumFrames)
        => /\ devices'[last'.device].pistons = devices[last'.device].pistons
           /\ published' = << >> ]_vars

\* C2 witness: a device whose first piston is active has received, as its
\* second frame, the activation command with one bit of its checksum flipped
C2_Witness ==
    /\ last.op = "on_message"
    /\ last.data \in BadChecksumFrames
    /\ Len(last.data) = 29
    /\ devices[last.device].messages_received = 2
    /\ devices[last.device].pistons[1]

\* C3: for every byte sequence of length >= 19 whose trailing little-endian
\* u16 differs from the CRC16 of the preceding bytes, decode fails with a
\* checksum mismatch that carries the received and the expected value, and
\* no payload parser runs on the frame.
C3_ChecksumMismatchStopsDecode ==
    (bench.stage = "decoded" /\ Len(bench.frame) >= 19
        /\ UnpackH(SubSeq(bench.frame, Len(bench.frame) - 1, Len(bench.frame)))
               # VirtualDevice_calculate_crc16(DropCrc(bench.frame)))
    => LET r        == bench.result.r
           received == UnpackH(SubSeq(bench.frame, Len(bench.frame) - 1, Len(bench.frame)))
           expected == VirtualDevice_calculate_crc16(DropCrc(bench.frame))
       IN  /\ r.parser = "none"
           /\ bench.result.by = "monitor"
              => /\ "error" \in DOMAIN r.out
                 /\ r.out.error = "CRC mismatch"
                 /\ r.out.received_crc = received
                 /\ r.out.calculated_crc = expected
           /\ bench.result.by = "decoder"
              => /\ "crc_valid" \in DOMAIN r.out
                 /\ ~r.out.crc_valid
                 /\ r.out.received_crc = received
                 /\ r.out.calculated_crc = expected
                 /\ "data" \notin DOMAIN r.out

\* C4: every crc16 implementation of the repository that produces or
\* consumes frames returns, for the same bytes, the value of the algorithm
\* with initial value 0xFFFF, the byte XORed into the low 8 bits and 8
\* right shifts with XOR 0x8005 when the low bit is 1.
C4_CrcImplementationsAgree ==
    (bench.stage = "checksummed")
    => LET r == bench.result
       IN  /\ r.monitor = r.simulator
           /\ r.client = r.simulator
           /\ r.client_fixed = r.simulator
           /\ r.test_crc = r.simulator
           /\ r.decoder = r.simulator

\* C5: flipping any single bit of any encoded frame (kind byte, device id,
\* payload or checksum) yields bytes for which decode reports a checksum
\* mismatch.
C5_SingleBitFlipDetected ==
    (bench.stage = "decoded" /\ bench.bit # 0 /\ bench.result.by = "monitor")
    => /\ "error" \in DOMAIN bench.result.r.out
       /\ bench.result.r.out.error = "CRC mismatch"
       /\ bench.result.r.crc_errors = 1

\* C5 witness: the highest bit of the last checksum byte of a frame was
\* flipped and the monitor decoded the result
C5_Witness ==
    /\ bench.stage = "decoded" /\ bench.result.by = "monitor"
    /\ bench.bit = 8 * Len(bench.frame)
    /\ bench.result.r.out.error = "CRC mismatch"

\* C6: for every byte sequence shorter than 19 bytes decode fails as too
\* short, reading no byte of the input, and a device receiving such a
\* sequence changes no piston and publishes no frame.
C6_ShortInputRejected ==
    /\ (bench.stage = "decoded" /\ bench.result.by = "monitor" /\ Len(bench.frame) < 19)
       => /\ bench.result.r.out = [error |-> "Message too short", size |-> Len(bench.frame),
                                   hex |-> bench.frame]
          /\ bench.result.r.parser = "none"
          /\ bench.result.r.decode_errors = 1
    /\ (bench.stage = "received" /\ Len(bench.frame) < 19)
       => /\ bench.result.r.dev.pistons = BenchDevice.pistons
          /\ bench.result.r.sends = << >>
          /\ ~bench.result.r.raised

\* C6 witness: the monitor has decoded a sequence of 18 bytes
C6_Witness ==
    /\ bench.stage = "decoded" /\ bench.result.by = "monitor"
    /\ Len(bench.frame) = 18
    /\ bench.result.r.out.error = "Message too short"

\* C7 (as stated): the PistonState frame of device
\* 550e8400-e29b-41d4-a716-446655440000, piston 3, active, timestamp 0 is
\* the byte 01, the 16 bytes of the id, the nine payload bytes
\* 03 01 00 00 00 00 00 00 00 and the little-endian CRC16 of these bytes.
C7_KnownVectorAsStated ==
    (bench.stage = "frame" /\ bench.device_id = DeviceIds[1]
        /\ bench.msg = [kind |-> PISTON_STATE, piston_number |-> 3, is_active |-> TRUE,
                        timestamp |-> 0])
    => LET prefix == << 1, 85, 14, 132, 0, 226, 155, 65, 212, 167, 22, 68, 102, 85, 68, 0, 0,
                        3, 1, 0, 0, 0, 0, 0, 0, 0 >>
           crc    == Monitor_calculate_crc16(prefix)
       IN  bench.frame = prefix \o << crc % 256, crc \div 256 >>

\* C7 (amended): that frame is the byte 01, the 16 bytes of the id, the ten
\* payload bytes 03 01 00 00 00 00 00 00 00 00 (piston, state and the eight
\* bytes of the timestamp) and 46 f4, the little-endian CRC16 of these 27
\* bytes.
C7_KnownVector ==
    (bench.stage = "frame" /\ bench.device_id = DeviceIds[1]
        /\ bench.msg = [kind |-> PISTON_STATE, piston_number |-> 3, is_active |-> TRUE,
                        timestamp |-> 0])
    => LET prefix == << 1, 85, 14, 132, 0, 226, 155, 65, 212, 167, 22, 68, 102, 85, 68, 0, 0,
                        3, 1, 0, 0, 0, 0, 0, 0, 0, 0 >>
           crc    == Monitor_calculate_crc16(prefix)
       IN  /\ bench.frame = prefix \o << 70, 244 >>
           /\ crc = 70 + 256 * 244

\* C7 witness: that frame has been encoded
C7_Witness ==
    /\ bench.stage = "frame" /\ bench.device_id = DeviceIds[1]
    /\ bench.msg = [kind |-> PISTON_STATE, piston_number |-> 3, is_active |-> TRUE,
                    timestamp |-> 0]
    /\ Len(bench.frame) = 29

\* C8: every frame a device hands to the transport has a length of at least
\* 19 and ends with the little-endian CRC16 of all the bytes before, so it
\* passes the decoder's checksum verification.
C8_PublishedFramesValid ==
    \A n \in 1..Len(published) :
        LET data == published[n].payload
        IN  /\ Len(data) >= 19
            /\ data \in VerifiedFrames \/ Monitor_verify_crc(data)

\* C8 witness: a device has handed a telemetry frame to the transport
C8_Witness ==
    /\ published # << >>
    /\ published[1].payload[1] = TELEMETRY
    /\ last.op = "telemetry_humidity"

\* C9: crc16 of the empty byte sequence is 0xFFFF.
C9_EmptyInput ==
    (bench.stage = "checksummed" /\ bench.frame = << >>)
    => /\ bench.result.simulator = 65535
       /\ bench.result.test_crc = 65535

\* C9 witness: the empty sequence has been checksummed
C9_Witness ==
    /\ bench.stage = "checksummed" /\ bench.frame = << >>
    /\ bench.result.by = "crc"

\* C10: a piston command with piston number 0 or above the piston count
\* leaves every piston flag unchanged, publishes no confirmation and leaves
\* messages_sent unchanged; the device raises nothing and stays subscribed,
\* so it processes the commands that follow.
C10_InvalidPistonIgnored ==
    [][ (/\ last'.op = "on_message"
         /\ Len(last'.data) >= 21
         /\ last'.data \notin BadChecksumFrames
         /\ last'.data[1] = PISTON_STATE
         /\ (last'.data[18] = 0 \/ last'.data[18] > Len(devices[last'.device].pistons)))
        => LET i == last'.device
           IN  /\ devices'[i].pistons = devices[i].pistons
               /\ published' = << >>
               /\ devices'[i].messages_sent = devices[i].messages_sent
               /\ devices'[i].errors = devices[i].errors
               /\ devices'[i].running = devices[i].running
               /\ link'[i] = "subscribed" ]_vars

\* C10 witness: a device with two pistons, the first activated by an earlier
\* command, has received the command for piston 3
C10_Witness ==
    /\ last.op = "on_message"
    /\ Len(last.data) = 29 /\ last.data \notin BadChecksumFrames
    /\ last.data[1] = PISTON_STATE /\ last.data[18] = 3
    /\ Len(devices[last.device].pistons) = 2
    /\ devices[last.device].pistons[1]
    /\ devices[last.device].messages_received = 2

\* C11: when _execute_command has returned from a command for piston p of
\* 1..len(pistons), piston p equals activate and every other piston of the
\* device is as it was when the command arrived; the callback has set the
\* piston first and has then handed exactly one PistonState frame carrying p
\* and activate to client.publish.
C11_CommandApplied ==
    [][ /\ (last'.op = "on_message" /\ callback'[last'.device].pc = "sleep")
            => LET i == last'.device
                   c == callback'[i]
               IN  /\ devices'[i].pistons =
                          [devices[i].pistons EXCEPT ![c.piston_number] = c.activate]
                   /\ published' = << >>
        /\ last'.op = "on_message_publish"
            => LET i == last'.device
                   c == callback[i]
               IN  /\ Len(published') = 1
                   /\ published'[1].device = i
                   /\ published'[1].payload[1] = PISTON_STATE
                   /\ published'[1].payload[18] = c.piston_number
                   /\ published'[1].payload[19] = (IF c.activate THEN 1 ELSE 0)
        /\ last'.op = "on_message_return"
            => devices'[last'.device].pistons =
                   [last'.entry EXCEPT ![last'.piston_number] = last'.activate] ]_vars

\* C12: in no state has an inbound command changed a piston while its
\* confirmation has not been handed to client.publish: the driver thread,
\* which runs during the time.sleep(0.1) of _execute_command, never sees
\* the piston changed and unconfirmed.
C12_ExecutionAtomic ==
    \A i \in 1..Len(devices) :
        ~ (/\ callback[i].pc = "sleep"
           /\ callback[i].entry[callback[i].piston_number] # callback[i].activate
           /\ driver.pc \in {"menu"} \cup Scenarios)

\* C13: whatever the interleaving of the callback of a device and the
\* driver, no update of a counter is lost: once no call of _publish is in
\* progress, messages_sent is the number of frames client.publish accepted.
C13_NoLostUpdate ==
    \A i \in 1..Len(devices) :
        callback[i].pc = "idle" => devices[i].messages_sent = transport[i]

\* C14 as stated: the sequential-wave scenario handles the devices in order
\* and, for device k with N pistons, activates pistons 1..N in ascending
\* order and then deactivates pistons 1..N in ascending order, each once,
\* handing one PistonState frame per activation and deactivation; when the
\* scenario returns no piston of any device is active.
C14_SequentialWaveLeavesNoneActive ==
    [][ /\ last'.op = "sequential_pistons"
            => LET k  == driver.k
                   n  == Len(devices[k].pistons)
                   on == driver.j <= n
                   p  == IF on THEN driver.j ELSE driver.j - n
               IN  /\ driver.j \in 1..(2 * n)
                   /\ devices'[k].pistons = [devices[k].pistons EXCEPT ![p] = on]
                   /\ Len(published') = 1
                   /\ published'[1].device = k
                   /\ published'[1].payload[1] = PISTON_STATE
                   /\ published'[1].payload[18] = p
                   /\ published'[1].payload[19] = (IF on THEN 1 ELSE 0)
                   /\ driver' = [driver EXCEPT !.j = driver.j + 1]
        /\ last'.op = "wave_complete"
            => /\ driver.j = 2 * Len(devices[driver.k].pistons) + 1
               /\ driver' = [driver EXCEPT !.k = driver.k + 1, !.j = 1]
               /\ published' = << >>
        /\ (last'.op = "scenario_return" /\ driver.pc = "sequential_pistons")
            => /\ driver.k = Len(devices) + 1
               /\ \A i \in 1..Len(devices) :
                      \A p \in 1..Len(devices'[i].pistons) : ~ devices'[i].pistons[p] ]_vars

\* C14, amended: the sequential-wave scenario handles the devices in order
\* and, for device k with N pistons, activates pistons 1..N in ascending
\* order and then deactivates pistons 1..N in ascending order, each once,
\* handing one PistonState frame per activation and deactivation; when the
\* scenario returns no piston is active in any device that received no
\* command frame while the scenario ran.
C14_SequentialWave ==
    [][ /\ last'.op = "sequential_pistons"
            => LET k  == driver.k
                   n  == Len(devices[k].pistons)
                   on == driver.j <= n
                   p  == IF on THEN driver.j ELSE driver.j - n
               IN  /\ driver.j \in 1..(2 * n)
                   /\ devices'[k].pistons = [devices[k].pistons EXCEPT ![p] = on]
                   /\ Len(published') = 1
                   /\ published'[1].device = k
                   /\ published'[1].payload[1] = PISTON_STATE
                   /\ published'[1].payload[18] = p
                   /\ published'[1].payload[19] = (IF on THEN 1 ELSE 0)
                   /\ driver' = [driver EXCEPT !.j = driver.j + 1]
        /\ last'.op = "wave_complete"
            => /\ driver.j = 2 * Len(devices[driver.k].pistons) + 1
               /\ driver' = [driver EXCEPT !.k = driver.k + 1, !.j = 1]
               /\ published' = << >>
        /\ (last'.op = "scenario_return" /\ driver.pc = "sequential_pistons")
            => /\ driver.k = Len(devices) + 1
               /\ \A i \in 1..Len(devices) :
                      devices[i].messages_received = driver.received[i]
                      => \A p \in 1..Len(devices'[i].pistons) : ~ devices'[i].pistons[p] ]_vars

\* C14 witness: the scenario has returned after the waves of both devices,
\* the second with two pistons, and the commanded device received nothing
\* meanwhile
C14_Witness ==
    /\ last.op = "scenario_return"
    /\ Len(devices) = 2
    /\ link[2] = "subscribed"
    /\ devices[2].messages_received = 0
    /\ devices[1].messages_sent + devices[1].errors >= 2
    /\ devices[2].messages_sent + devices[2].errors >= 5

\* C15: a call of simulate_environmental_changes never increases
\* battery_level and never leaves it below 0; at 0 it stays at 0.
C15_BatteryNeverRises ==
    [][ last'.op = "tick"
        => /\ devices'[1].battery_level.eighths <= devices[1].battery_level.eighths
           /\ devices'[1].battery_level.eighths >= 0
           /\ devices[1].battery_level.eighths = 0
              => devices'[1].battery_level.eighths = 0 ]_vars

\* C15 witness: a call drained the battery to 0 and a later call left it at 0
C15_Witness ==
    /\ last.op = "tick"
    /\ driver.j = 4
    /\ devices[1].battery_level = [float |-> FALSE, eighths |-> 0]

\* C16: from the creation of a device through any number of calls of
\* simulate_environmental_changes, temperature is in [15.0, 35.0], humidity
\* in [20.0, 80.0], signal_strength an integer in [0, 100] and battery_level
\* in [0, 100] (temperature, humidity and battery in eighths).
C16_EnvironmentInRange ==
    \A i \in 1..Len(devices) :
        /\ devices[i].temperature \in 120..280
        /\ devices[i].humidity \in 160..640
        /\ devices[i].signal_strength \in 0..100
        /\ devices[i].battery_level.eighths \in 0..800

\* C16 witness: calls have pushed temperature, humidity and signal against
\* their upper bounds and drained the battery
C16_Witness ==
    /\ last.op = "tick"
    /\ devices[1].temperature = 280
    /\ devices[1].humidity = 640
    /\ devices[1].signal_strength = 100
    /\ devices[1].battery_level.eighths = 0

\* C17: stop_all, called in any state the driver can reach (also after a
\* scenario that called simulate_environmental_changes), handles the devices
\* in order: disconnect sets the status of device k to Offline and hands one
\* StatusUpdate frame with status code 0 to client.publish, then the channel
\* of device k is unbound; when stop_all has ended every device is Offline
\* and unbound.
C17_StopAllStopsEveryDevice ==
    [][ /\ last'.op = "disconnect"
            => LET k == driver.k
               IN  /\ last'.device = k
                   /\ devices'[k].status = OFFLINE
                   /\ Len(published') = 1
                   /\ published'[1].device = k
                   /\ published'[1].payload[1] = STATUS_UPDATE
                   /\ published'[1].payload[18] = OFFLINE
        /\ last'.op = "loop_stop"
            => /\ last'.device = driver.k
               /\ link'[driver.k] = "closed"
               /\ driver'.k = driver.k + 1
        /\ (driver.pc = "stopping" /\ driver'.pc # "stopping")
            => \A i \in 1..Len(devices) :
                   devices'[i].status = OFFLINE /\ link'[i] = "closed" ]_vars

\* C18: while start_all runs, a device whose connection the broker accepts
\* (rc = 0) goes from Offline to Online and connected and then hands one
\* StatusUpdate frame with status code 1 to client.publish; a device whose
\* client.connect raises, or whose connection the broker refuses, stays
\* Offline and not connected and hands no frame.
C18_StartAllBinds ==
    [][ /\ (last'.op = "on_connect" /\ driver.pc = "starting" /\ last'.rc = 0)
            => LET i == last'.device
               IN  /\ devices[i].status = OFFLINE
                   /\ devices'[i].status = ONLINE
                   /\ devices'[i].connected
                   /\ Len(published') = 1
                   /\ published'[1].device = i
                   /\ published'[1].payload[1] = STATUS_UPDATE
                   /\ published'[1].payload[18] = ONLINE
        /\ (last'.op = "on_connect" /\ driver.pc = "starting" /\ last'.rc # 0)
            => LET i == last'.device
               IN  /\ devices'[i] = devices[i]
                   /\ devices'[i].status = OFFLINE
                   /\ ~ devices'[i].connected
                   /\ published' = << >>
        /\ (last'.op = "connect" /\ link'[last'.device] # "connecting")
            => LET i == last'.device
               IN  /\ devices'[i].status = OFFLINE
                   /\ ~ devices'[i].connected
                   /\ published' = << >>
                   /\ link'[i] = link[i] ]_vars

\* C18 witness: start_all is still running; client.connect of the first
\* device raised, the second device has connected and sent its status
C18_Witness ==
    /\ last.op = "on_connect" /\ last.rc = 0 /\ last.device = 2
    /\ driver.pc = "starting"
    /\ link = << "idle", "subscribed" >>
    /\ devices[1].status = OFFLINE /\ devices[1].errors = 1
    /\ devices[2].status = ONLINE
    /\ Len(published) = 1

\* C19: the status of a device becomes Error after send_error, and after
\* repeated failures of client.publish (an Online device whose publish fails
\* again after an earlier error was counted).
C19_ErrorStatus ==
    [][ /\ last'.op = "error_simulation"
            => devices'[last'.device].status = STATUS_ERROR
        /\ (/\ published' # << >>
            /\ ~ published'[1].ok
            /\ last'.op \notin {"disconnect", "on_message_publish"}
            /\ devices[published'[1].device].status = ONLINE
            /\ devices[published'[1].device].errors >= 1)
            => devices'[published'[1].device].status = STATUS_ERROR ]_vars

\* C20: add_device appends one device to the end of the collection, with
\* status Offline, connected false, num_pistons pistons numbered from 1, all
\* inactive, and the three counters 0; it binds no channel, publishes no
\* frame and changes no device already in the collection.
C20_AddDeviceAppends ==
    [][ last'.op = "add_device"
        => LET n   == Len(devices)
               new == devices'[n + 1]
           IN  /\ Len(devices') = n + 1
               /\ last'.device = n + 1
               /\ SubSeq(devices', 1, n) = devices
               /\ new.status = OFFLINE
               /\ ~ new.connected
               /\ ~ new.running
               /\ DOMAIN new.pistons = 1..PistonCounts[n + 1]
               /\ \A p \in DOMAIN new.pistons : ~ new.pistons[p]
               /\ new.messages_sent = 0
               /\ new.messages_received = 0
               /\ new.errors = 0
               /\ link' = Append(link, "idle")
               /\ transport' = Append(transport, 0)
               /\ published' = << >> ]_vars

\* C20 witness: a second device, of two pistons, has been added after the
\* first
C20_Witness ==
    /\ last.op = "add_device" /\ last.device = 2
    /\ Len(devices) = 2
    /\ Len(devices[1].pistons) = 1
    /\ Len(devices[2].pistons) = 2

\* C21: print_stats changes no field of any device and publishes nothing, and
\* the snapshot of each device reports as active the number of its pistons
\* whose flag is true, as total the number of its pistons, and the three
\* counters at their current values.
C21_StatsReadOnly ==
    [][last'.op = "print_stats" =>
          /\ devices' = devices
          /\ published' = << >>
          /\ transport' = transport
          /\ Len(last'.stats) = Len(devices)
          /\ \A i \in 1..Len(devices) :
                 LET stats == last'.stats[i]
                     dev   == devices[i]
                 IN  /\ stats.active_pistons.active =
                            Cardinality({ n \in 1..Len(dev.pistons) : dev.pistons[n] = TRUE })
                     /\ stats.active_pistons.total = Len(dev.pistons)
                     /\ stats.messages_sent = dev.messages_sent
                     /\ stats.messages_received = dev.messages_received
                     /\ stats.errors = dev.errors]_vars

\* statistics are printed for two devices, one of them with one piston of
\* two active, messages sent and received and an error counted
C21_Witness ==
    /\ last.op = "print_stats"
    /\ Len(devices) = 2
    /\ \E i \in 1..Len(devices) :
           /\ last.stats[i].active_pistons = [active |-> 1, total |-> 2]
           /\ devices[i].messages_sent > 0
           /\ devices[i].messages_received > 0
           /\ devices[i].errors > 0

\* C22: messages_received of a device grows by one with an inbound frame
\* that decodes, and does not grow with an inbound frame that is too short,
\* whose checksum does not match or whose payload is too short.
C22_ReceivedCountsDecoded ==
    (bench.stage = "received" /\ bench.result.by = "device") =>
        bench.result.r.dev.messages_received =
            BenchDevice.messages_received
                + (IF BenchFault \in {"TooShort", "ChecksumMismatch", "PayloadTooShort"}
                   THEN 0 ELSE 1)

\* C23: an inbound frame that is too short, whose checksum does not match or
\* whose payload is too short adds exactly one to the error counter of its
\* receiver (errors of a device; crc_errors or decode_errors of the decoder
\* of the monitor), and a frame of an unknown kind adds nothing to it.
C23_FailuresCounted ==
    LET failed == BenchFault \in {"TooShort", "ChecksumMismatch", "PayloadTooShort"}
    IN  /\ (bench.stage = "received" /\ bench.result.by = "device") =>
               /\ failed => bench.result.r.dev.errors = BenchDevice.errors + 1
               /\ BenchFault = "UnknownKind" => bench.result.r.dev.errors = BenchDevice.errors
        /\ (bench.stage = "decoded" /\ bench.result.by = "monitor") =>
               /\ failed => bench.result.r.crc_errors + bench.result.r.decode_errors = 1
               /\ BenchFault = "UnknownKind" =>
                      bench.result.r.crc_errors + bench.result.r.decode_errors = 0

\* C24: when the operations on the devices are executed by a single actor,
\* messages_sent of a device equals the number of frames client.publish has
\* accepted from it, and an operation that hands a frame to client.publish
\* adds one to messages_sent and nothing to errors when publish returns, and
\* nothing to messages_sent and one to errors when publish raises.
C24_SentCountsHandedFrames ==
    [][/\ \A i \in 1..Len(devices') : devices'[i].messages_sent = transport'[i]
       /\ \A n \in 1..Len(published') :
              LET i == published'[n].device
              IN  IF published'[n].ok
                  THEN /\ devices'[i].messages_sent = devices[i].messages_sent + 1
                       /\ devices'[i].errors = devices[i].errors
                  ELSE /\ devices'[i].messages_sent = devices[i].messages_sent
                       /\ devices'[i].errors = devices[i].errors + 1]_vars

\* a device has handed one frame that client.publish accepted and then one
\* for which it raised
C24_Witness ==
    /\ Len(published) = 1
    /\ ~published[1].ok
    /\ devices[published[1].device].messages_sent = 1
    /\ devices[published[1].device].errors = 1
    /\ transport[published[1].device] = 1

\* C25: for a checksum-valid frame whose kind byte is not one of 1..4, a
\* decoder returns a result that carries the kind byte (the result for the
\* same frame with another unknown kind differs) and the payload bytes, and
\* that differs from its result for every frame that is too short or whose
\* checksum does not match, and counts no decode failure; a device that
\* receives the frame changes no piston and publishes no frame.
C25_UnknownKindSurfaced ==
    BenchFault = "UnknownKind" =>
        LET kind    == bench.frame[1]
            payload == FromToCrc(bench.frame, 17)
        IN  /\ (bench.stage = "decoded" /\ bench.result.by = "monitor") =>
                   /\ bench.result.r.out.raw_type = kind
                   /\ FromToCrc(bench.result.r.out.hex, 17) = payload
                   /\ bench.result.r.out.error \notin {"Message too short", "CRC mismatch"}
                   /\ bench.result.r.crc_errors + bench.result.r.decode_errors = 0
            /\ (bench.stage = "parsed" /\ bench.result.by = "client") =>
                   /\ LET body == [DropCrc(bench.frame) EXCEPT
                                       ![1] = IF kind = 5 THEN 6 ELSE 5]
                      IN  bench.result.r #
                              ClientFixed_parse_command(body \o PackH(Backend_crc16(body)))
                   /\ "data" \in DOMAIN bench.result.r /\ bench.result.r.data = payload
                   /\ \A c \in CorruptFrames \cup ShortFrames :
                          bench.result.r # ClientFixed_parse_command(c)
            /\ (bench.stage = "received" /\ bench.result.by = "device") =>
                   /\ \A c \in CorruptFrames \cup ShortFrames :
                          ParseCommand(bench.frame) # ParseCommand(c)
                   /\ bench.result.r.dev.pistons = BenchDevice.pistons
                   /\ bench.result.r.sends = << >>

\* C26: for a checksum-valid frame of a recognized kind, the decoder of the
\* monitor fails with an invalid payload size exactly when the payload is
\* shorter than 10 bytes (PistonState), 3 (StatusUpdate), 13 (Telemetry) or
\* 4 (Error), and it accepts an Error payload of exactly 4 bytes with an
\* empty message.
C26_PayloadTooShortExactly ==
    (/\ bench.stage = "decoded"
     /\ bench.result.by = "monitor"
     /\ BenchFault \notin {"TooShort", "ChecksumMismatch", "UnknownKind"}) =>
        LET kind    == bench.frame[1]
            payload == FromToCrc(bench.frame, 17)
            out     == bench.result.r.out
            minimum == CASE kind = 1 -> 10 [] kind = 2 -> 3 [] kind = 3 -> 13 [] kind = 4 -> 4
            failed  == /\ "error" \in DOMAIN out
                       /\ out.error \in {"Invalid piston state payload size",
                                         "Invalid status update payload size",
                                         "Invalid telemetry payload size",
                                         "Invalid error payload size"}
        IN  /\ failed <=> Len(payload) < minimum
            /\ (kind = 4 /\ Len(payload) = 4) =>
                   /\ "type" \in DOMAIN out
                   /\ out.type = "ERROR"
                   /\ out.message = << >>

\* the decoder of the monitor has refused a checksum-valid Error frame whose
\* payload has 3 bytes
C26_Witness ==
    /\ bench.stage = "decoded"
    /\ bench.result.by = "monitor"
    /\ BenchFault = "PayloadTooShort"
    /\ bench.frame[1] = ERROR
    /\ Len(FromToCrc(bench.frame, 17)) = 3
    /\ bench.result.r.out = [error |-> "Invalid error payload size", size |-> 3]

\* C27: a device that executes the same in-range piston command a second
\* time has the piston flags it had after the first time, the commanded
\* piston in the commanded state, and each execution hands one confirmation
\* frame that carries the piston number and the state of the command.
C27_CommandIdempotent ==
    bench.stage = "received_again" =>
        LET first  == bench.result.first
            second == bench.result.r
            number == bench.frame[18]
            state  == bench.frame[19]
        IN  /\ second.dev.pistons = first.dev.pistons
            /\ second.dev.pistons[number] = (state = 1)
            /\ Len(first.sends) = 1
            /\ Len(second.sends) = 1
            /\ \A frame \in {first.sends[1], second.sends[1]} :
                   /\ frame[1] = PISTON_STATE
                   /\ frame[18] = number
                   /\ frame[19] = state

\* the command that deactivates piston 1, active on the device, was executed
\* twice
C27_Witness ==
    /\ bench.stage = "received_again"
    /\ bench.frame[18] = 1
    /\ bench.frame[19] = 0
    /\ BenchDevice.pistons[1]
    /\ ~bench.result.first.dev.pistons[1]
    /\ ~bench.result.r.dev.pistons[1]
    /\ bench.result.r.dev.messages_received = BenchDevice.messages_received + 2

\* C28: send_status_update of a device that simulate_environmental_changes
\* has ticked returns without raising and hands to client.publish one
\* StatusUpdate frame whose status byte is the status code of the device and
\* whose battery byte and signal byte are each in 0..100 or 255.
C28_StatusAfterTick ==
    [][last'.op = "telemetry_status" =>
          /\ ~last'.raised
          /\ Len(published') = 1
          /\ LET frame == published'[1].payload
             IN  /\ published'[1].device = last'.device
                 /\ frame[1] = STATUS_UPDATE
                 /\ frame[18] = devices[last'.device].status
                 /\ frame[19] \in (0..100) \cup {255}
                 /\ frame[20] \in (0..100) \cup {255}]_vars

\* C29: a step of the telemetry-stream scenario either leaves the scenario
\* for the menu at the head of its loop, or hands one frame of the device in
\* turn: after its tick a temperature Telemetry frame, then a humidity
\* Telemetry frame, then a StatusUpdate frame, and then moves to the next
\* device of the collection; the scenario is left for the menu only.
C29_TelemetryStreamPasses ==
    [][(driver.pc = "telemetry_stream" /\ driver' # driver) =>
          \/ /\ driver'.pc = "menu"
             /\ driver.k = 1 /\ driver.j = 1
          \/ /\ driver'.pc = "telemetry_stream"
             /\ Len(published') = 1
             /\ published'[1].device = driver.k
             /\ LET frame == published'[1].payload
                IN  CASE driver.j = 1 -> frame[1] = TELEMETRY /\ frame[18] = 0
                      [] driver.j = 2 -> frame[1] = TELEMETRY /\ frame[18] = 2
                      [] driver.j = 3 -> frame[1] = STATUS_UPDATE
             /\ IF driver.j < 3
                THEN driver'.k = driver.k /\ driver'.j = driver.j + 1
                ELSE /\ driver'.k = (IF driver.k = Len(devices) THEN 1 ELSE driver.k + 1)
                     /\ driver'.j = 1]_vars

\* C30: a device that receives a checksum-valid PistonState frame whose
\* payload is shorter than 10 bytes changes no piston flag, publishes no
\* confirmation frame and adds one to its errors counter.
C30_ShortCommandDiscarded ==
    (/\ bench.stage = "received"
     /\ bench.result.by = "device"
     /\ BenchFault = "PayloadTooShort"
     /\ bench.frame[1] = PISTON_STATE
     /\ Len(FromToCrc(bench.frame, 17)) < 10) =>
        /\ bench.result.r.dev.pistons = BenchDevice.pistons
        /\ bench.result.r.sends = << >>
        /\ bench.result.r.dev.errors = BenchDevice.errors + 1

\* C31: every PistonState frame a device hands to client.publish carries a
\* piston number in 1..len(pistons) and a state byte equal to the flag of
\* that piston as the step that hands the frame leaves it.
C31_PistonFramesTruthful ==
    [][\A n \in 1..Len(published') :
           LET i     == published'[n].device
               frame == published'[n].payload
           IN  frame[1] = PISTON_STATE =>
                   /\ frame[18] \in 1..Len(devices'[i].pistons)
                   /\ (frame[19] = 1) = devices'[i].pistons[frame[18]]]_vars

\* C32: an inbound frame that fails decoding (too short, checksum mismatch,
\* payload too short) leaves the pistons, the status, the connected flag and
\* the environmental readings of the device that receives it unchanged, and
\* a valid command received after it sets the pistons and is confirmed as it
\* would have been had the failed frame not arrived.
C32_FailedFrameLeavesNoTrace ==
    /\ (/\ bench.stage = "received"
        /\ bench.result.by = "device"
        /\ BenchFault \in {"TooShort", "ChecksumMismatch", "PayloadTooShort"}) =>
           LET dev == bench.result.r.dev
           IN  /\ dev.pistons = BenchDevice.pistons
               /\ dev.status = BenchDevice.status
               /\ dev.connected = BenchDevice.connected
               /\ dev.temperature = BenchDevice.temperature
               /\ dev.pressure = BenchDevice.pressure
               /\ dev.humidity = BenchDevice.humidity
               /\ dev.battery_level = BenchDevice.battery_level
               /\ dev.signal_strength = BenchDevice.signal_strength
    /\ bench.stage = "received_command" =>
           \A t \in Clock :
               LET alone == VirtualDevice_on_message(BenchDevice, FollowUpCommand, t)
               IN  /\ bench.result.r.dev.pistons = alone.dev.pistons
                   /\ bench.result.r.dev.status = alone.dev.status
                   /\ bench.result.r.dev.connected = alone.dev.connected
                   /\ bench.result.r.sends = alone.sends

\* C33: a call of simulate_environmental_changes on a device leaves its
\* pistons, status, connected flag and its three counters as they were (only
\* temperature, humidity, battery_level and signal_strength may differ),
\* hands no frame to client.publish and changes no field of any other device.
C33_TickTouchesOnlyReadings ==
    [][ last'.op = "tick"
        => /\ Len(devices') = Len(devices)
           /\ \A i \in 1..Len(devices) :
                 IF i = driver.k
                 THEN devices'[i] = [devices[i] EXCEPT
                                        !.temperature = devices'[i].temperature,
                                        !.humidity = devices'[i].humidity,
                                        !.battery_level = devices'[i].battery_level,
                                        !.signal_strength = devices'[i].signal_strength]
                 ELSE devices'[i] = devices[i]
           /\ published' = << >>
           /\ transport' = transport ]_vars

\* C33 witness: the connected, Online device with an active piston and raised
\* counters was ticked three times and all four of its readings have moved
C33_Witness ==
    /\ last.op = "tick"
    /\ driver.k = 2
    /\ driver.j = 4
    /\ devices[2].connected
    /\ devices[2].status = ONLINE
    /\ devices[2].pistons[2]
    /\ devices[2].messages_sent = 2
    /\ devices[2].temperature # 200
    /\ devices[2].humidity # 400
    /\ devices[2].battery_level.eighths < 800
    /\ devices[2].signal_strength # 70
    /\ devices[1] \in EnvStarts

\* C34: each of the five scenarios, once entered by run_scenario, is left
\* only by returning to the menu that called it, whatever the collection of
\* devices; run_scenario with a name that is none of the five changes no
\* device, hands no frame to client.publish and is back at the menu.
C34_ScenariosReturn ==
    [][ /\ driver.pc \in Scenarios => driver'.pc \in {driver.pc, "menu"}
        /\ (last'.op = "run_scenario" /\ last'.name \notin Scenarios)
           => /\ devices' = devices
              /\ published' = << >>
              /\ driver'.pc = "menu" ]_vars

\* C35: a device that receives a checksum-valid command frame whose 16-byte
\* device id is not its own changes none of its pistons and starts no
\* confirmation.
C35_ForeignCommandIgnored ==
    [][ ( /\ last'.op = "on_message"
          /\ last'.data \in CommandFrames
          /\ SubSeq(last'.data, 2, 17) # UuidBytes(devices[last'.device].device_id) )
        => /\ devices'[last'.device].pistons = devices[last'.device].pistons
           /\ callback'[last'.device].pc = "idle" ]_vars

\* C36: when stop_all runs while a command is being applied by the client
\* thread of a device, the channel of the device is closed only when its
\* callback has ended (the confirmation has been handed to client.publish),
\* and once disconnect has handed the Offline StatusUpdate of the device no
\* further frame of that device is handed to client.publish.
C36_OfflineStatusIsLast ==
    [][ /\ \A i \in 1..Len(devices) :
              (link'[i] = "closed" /\ link[i] # "closed") => callback[i].pc = "idle"
        /\ \A n \in 1..Len(published') :
              LET i == published'[n].device
              IN  ~ \/ driver.pc = "done"
                    \/ /\ driver.pc = "stopping"
                       /\ driver.k > i \/ (driver.k = i /\ driver.j = 2) ]_vars

\* C37: a frame is handed to client.publish for a device only while the
\* channel of the device is bound: never for a device whose connect has not
\* bound it (its channel still idle) and never for a device that stop_all has
\* unbound (its channel closed).
C37_PublishOnlyWhileBound ==
    [][ \A n \in 1..Len(published') :
            link[published'[n].device] \notin {"idle", "closed"} ]_vars

\* C38: in every state, also between the statements of _on_connect,
\* _on_disconnect and disconnect, a device whose status is Online has its
\* connected flag set, and the statistics printed by the driver name no
\* device as ONLINE with connected False.
C38_OnlineImpliesConnected ==
    /\ \A i \in 1..Len(devices) : devices[i].status = ONLINE => devices[i].connected
    /\ last.op = "print_stats"
       => \A i \in 1..Len(last.stats) :
              last.stats[i].status = "ONLINE" => last.stats[i].connected

====
